---- MODULE Spec2Model ----
(***************************************************************************)
(* A model of the k-ary folding arguments (K_BulletProof, batched_eCP),    *)
(* their byte codecs, and the aggregated R1CS prover / verifier.           *)
(*                                                                         *)
(* Scalars are the elements of a prime field of order Order.  Group        *)
(* elements are written over a basis of independent generators             *)
(* (B, B_blinding, G_i, H_i, C1_i, C2_i): a point is the vector of its     *)
(* coefficients, and it is the identity iff every coefficient is 0.  A     *)
(* compressed point is a 32-byte string.  The Fiat-Shamir transcript is    *)
(* the log of everything absorbed by it together with the digest of that   *)
(* log; a challenge is a non-zero scalar computed from the digest (a zero  *)
(* challenge has negligible probability in the program).                   *)
(***************************************************************************)
EXTENDS Integers, Sequences, FiniteSets, TLC

VARIABLES
    pc,        \* position of the run: which operations have happened
    cfg,       \* the inputs of the run (arity, depth, witness, seed, ...)
    pt,        \* the prover's transcript
    vt,        \* the verifier's transcript
    proof,     \* the proof object returned by create / prove
    wire,      \* the byte string produced by to_bytes (possibly altered in transit)
    decoded,   \* the result of from_bytes: [tag |-> "Ok", val |-> proof] or an error
    result,    \* the result of verify / verification_scalars, or the calls made so far
    prv,       \* the Prover and its ProverCS while a constraint system is built
    vrf        \* the Verifier and its VerifierCS while a constraint system is built

vars == <<pc, cfg, pt, vt, proof, wire, decoded, result, prv, vrf>>

\* ------------------------------------------------------------------ bounds
MaxK == 3        \* fold arities 2..MaxK
MaxD == 2        \* numbers of rounds 0..MaxD
MaxLen == 4      \* witness lengths 1..MaxLen
MaxWit == 2      \* witness vectors are drawn from the families 0..MaxWit
MaxSeed == 1     \* initial transcript states 0..MaxSeed
MaxExtra == 2    \* bytes appended to / cut from an encoding: 1..MaxExtra
MaxShift == 1    \* the permutation of a shuffle is a rotation by 0..MaxShift
MaxGates == 1    \* a verifier without commitments has 0..MaxGates multiplication gates
MaxVecs == 2     \* commit_vec is called at most MaxVecs times,
MaxVecLen == 2   \* with vectors of the lengths 1..MaxVecLen
MaxOps == 2      \* multiply / allocate / constrain are called at most MaxOps times
MaxWeight == 2   \* the verifier's random weight is drawn from 1..MaxWeight
MaxInputCalls == 4   \* commit / commit_vec are called at most MaxInputCalls times
MaxLenN == 16    \* round lengths are computed for n in 1..MaxLenN,
MaxLenK == 4     \*   k in 2..MaxLenK
MaxLenD == 2     \*   and d in 0..MaxLenD

\* ------------------------------------------------------------ scalar field
Order == 5
PointLen == 32
HashMod == 65521

Min(x, y) == IF x < y THEN x ELSE y

\* a vector with every element computed (Vec::collect)
Vec(f) == f \o <<>>

RECURSIVE Pow(_, _)
Pow(x, e) == IF e = 0 THEN 1 ELSE x * Pow(x, e - 1)

SAdd(x, y) == (x + y) % Order
SSub(x, y) == (x + Order - y) % Order
SNeg(x) == (Order - x) % Order
SMul(x, y) == (x * y) % Order

RECURSIVE scalar_pow(_, _)
scalar_pow(base, exp) ==
    IF exp = 0 THEN 1
    ELSE SMul(IF exp % 2 = 1 THEN base ELSE 1,
              scalar_pow(SMul(base, base), exp \div 2))

SInv(x) == scalar_pow(x, Order - 2)

\* the sum of a[i] * b[i] over i in lo..hi (summed by halves)
RECURSIVE inner_product_range(_, _, _, _)
inner_product_range(a, b, lo, hi) ==
    IF lo > hi THEN 0
    ELSE IF lo = hi THEN SMul(a[lo], b[lo])
    ELSE LET mid == (lo + hi) \div 2
         IN  SAdd(inner_product_range(a, b, lo, mid), inner_product_range(a, b, mid + 1, hi))

inner_product(a, b) == inner_product_range(a, b, 1, Len(a))

Zeros(n) == Vec([i \in 1..n |-> 0])

\* exp_iter(x).take(n): 1, x, x^2, ...
RECURSIVE exp_iter(_, _)
exp_iter(x, n) ==
    IF n = 0 THEN <<>>
    ELSE LET p == exp_iter(x, n - 1)
         IN  Append(p, IF n = 1 THEN 1 ELSE SMul(p[n - 1], x))

\* ------------------------------------------------------------------ points
Dim == 2 + 4 * MaxLen
IdxB == 1
IdxBBlinding == 2
IdxG(i) == 2 + i
IdxH(i) == 2 + MaxLen + i
IdxC1(i) == 2 + 2 * MaxLen + i
IdxC2(i) == 2 + 3 * MaxLen + i

Identity == Vec([i \in 1..Dim |-> 0])
Unit(j) == Vec([i \in 1..Dim |-> IF i = j THEN 1 ELSE 0])
PAdd(P, Q) == Vec([i \in 1..Dim |-> (P[i] + Q[i]) % Order])
PMul(s, P) == Vec([i \in 1..Dim |-> (s * P[i]) % Order])
IsIdentity(P) == \A i \in 1..Dim : P[i] = 0

\* coordinate i of the sum of ss[j] * ps[j] over j in lo..hi (summed by halves)
RECURSIVE MsmCoord(_, _, _, _, _)
MsmCoord(ss, ps, i, lo, hi) ==
    IF lo > hi THEN 0
    ELSE IF lo = hi THEN (ss[lo] * ps[lo][i]) % Order
    ELSE LET mid == (lo + hi) \div 2
         IN  (MsmCoord(ss, ps, i, lo, mid) + MsmCoord(ss, ps, i, mid + 1, hi)) % Order

multiscalar_mul(ss, ps) ==
    LET n == Min(Len(ss), Len(ps))
    IN  Vec([i \in 1..Dim |-> MsmCoord(ss, ps, i, 1, n)])

GensG(n) == Vec([i \in 1..n |-> Unit(IdxG(i))])
GensH(n) == Vec([i \in 1..n |-> Unit(IdxH(i))])
B == Unit(IdxB)
B_blinding == Unit(IdxBBlinding)

\* CompressedRistretto: 32 bytes; not every 32-byte string is a point
compress(P) == Vec([i \in 1..PointLen |-> IF i <= Dim THEN P[i] ELSE 0])
CanDecompress(c) ==
    \A i \in 1..PointLen : IF i <= Dim THEN c[i] < Order ELSE c[i] = 0
decompress(c) == Vec([i \in 1..Dim |-> c[i]])

\* Scalar::as_bytes / Scalar::from_canonical_bytes (little-endian, 32 bytes)
ScalarBytes(s) == Vec([i \in 1..PointLen |-> IF i = 1 THEN s ELSE 0])
IsCanonical(c) == c[1] < Order /\ \A i \in 2..PointLen : c[i] = 0
ScalarFromBytes(c) == c[1]

\* u64::to_le_bytes for values below 256^2, and the u64 read back from 8 bytes
U64Bytes(x) == Vec([i \in 1..8 |-> IF i = 1 THEN x % 256 ELSE IF i = 2 THEN x \div 256 ELSE 0])

\* -------------------------------------------------------------- transcript
\* the transcript is the log of everything absorbed so far, <<label, bytes>> for a
\* message and <<label, <<>> >> for a challenge that was squeezed, and its digest
Labels == << "dom-sep", "protocol-name", "n", "k", "U_round", "U_index", "U_point",
             "challenge_prefix", "challenge_index", "challenge_separator",
             "A_round", "A_index", "A_point_0", "A_point_1", "r1",
             "V", "m", "k-scalar shuffle challenge", "A_I", "A_O", "S", "y", "z",
             "T_1", "T_2", "T_3", "T_4", "T_5", "T_6", "x",
             "t_x", "t_x_blinding", "e_blinding",
             "S_prime", "T_1_prime", "S1_prime", "S2_prime", "x_prime",
             "tc_x", "tc_x_blinding", "ec_blinding", "r_blinding", "t_cross",
             "x_ipp", "w_agg", "chall_batched_ecp", "L", "R", "u" >>
LabelCode(l) == CHOOSE i \in 1..Len(Labels) : Labels[i] = l

\* a position-weighted checksum of the bytes lo..hi of data
RECURSIVE Digest(_, _, _)
Digest(data, lo, hi) ==
    IF lo > hi THEN 0
    ELSE IF lo = hi THEN (lo * data[lo]) % HashMod
    ELSE LET mid == (lo + hi) \div 2
         IN  (Digest(data, lo, mid) + Digest(data, mid + 1, hi)) % HashMod

MsgDigest(msg) == (7 * LabelCode(msg[1]) + Digest(msg[2], 1, Len(msg[2])) + 1) % HashMod

\* a position-weighted checksum of the entries lo..hi of the transcript
RECURSIVE LogDigest(_, _, _)
LogDigest(T, lo, hi) ==
    IF lo > hi THEN 0
    ELSE IF lo = hi THEN (lo * MsgDigest(T[lo])) % HashMod
    ELSE LET mid == (lo + hi) \div 2
         IN  (LogDigest(T, lo, mid) + LogDigest(T, mid + 1, hi)) % HashMod

\* the transcript after the messages msgs have been absorbed: st is the digest of
\* the whole log
Absorb(T, msgs) ==
    LET log == T.log \o msgs
    IN  [log |-> log, st |-> (T.st + LogDigest(log, Len(T.log) + 1, Len(log))) % HashMod]

NewTranscript(seed) == Absorb([log |-> <<>>, st |-> 0], << <<"dom-sep", <<seed>> >> >>)

append_message(T, label, data) == Absorb(T, << <<label, data>> >>)

commit_point(T, label, c) == append_message(T, label, c)

\* challenge_scalar: the challenge is a function of everything absorbed before it,
\* and the transcript records that it was squeezed
ChallengeState(T, label) == Absorb(T, << <<label, <<>> >> >>)
ChallengeValue(T, label) ==
    1 + (((T.st % 1000) * 37 + 11 * LabelCode(label) + 3) % (Order - 1))

\* -------------------------------------------------- reconstruct_round_lengths
\* a faulty variant: the length is divided without being padded first
RECURSIVE round_lengths_unpadded(_, _, _)
round_lengths_unpadded(n, k, d) ==
    IF d = 0 THEN <<n>> ELSE <<n>> \o round_lengths_unpadded(n \div k, k, d - 1)

\* a faulty variant: a full block is added even to a multiple of k
RECURSIVE round_lengths_always_padded(_, _, _)
round_lengths_always_padded(n, k, d) ==
    IF d = 0 THEN <<n>>
    ELSE <<n>> \o round_lengths_always_padded((n + (k - (n % k))) \div k, k, d - 1)

\* a faulty variant: the lengths are recorded after the padding
RECURSIVE round_lengths_after_padding(_, _, _)
round_lengths_after_padding(n, k, d) ==
    IF d = 0 THEN <<n>>
    ELSE LET n_padded == n + (IF n % k = 0 THEN 0 ELSE k - (n % k))
         IN  <<n_padded>> \o round_lengths_after_padding(n_padded \div k, k, d - 1)

RECURSIVE reconstruct_round_lengths(_, _, _)
reconstruct_round_lengths(n, k, d) ==
    IF d = 0 THEN <<n>>
    ELSE LET rem == n % k
             pad == IF rem = 0 THEN 0 ELSE k - rem
             n_padded == n + pad
         IN  <<n>> \o reconstruct_round_lengths(n_padded \div k, k, d - 1)

Last(s) == s[Len(s)]

\* ------------------------------------------------------ K_BulletProof::create
KBulletName == <<1>>
KIppName == <<2>>
CPrefix == <<3>>

Chunk(v, m, i) == SubSeq(v, i * m + 1, (i + 1) * m)
Column(v, m, k, j) == Vec([i \in 1..k |-> v[(i - 1) * m + j]])
PadScalars(v, pad) == v \o Vec([i \in 1..pad |-> 0])
PadPoints(v, pad) == v \o Vec([i \in 1..pad |-> Identity])

\* start, start*ratio, start*ratio^2, ... (k entries)
RECURSIVE GeoSeq(_, _, _)
GeoSeq(start, ratio, k) ==
    IF k = 0 THEN <<>> ELSE <<start>> \o GeoSeq(SMul(start, ratio), ratio, k - 1)

\* the cross term of offset l: blocks (i, i+l) for i = 0..k-l-1; the positive term
\* pairs a_i with g_(i+l) and b_(i+l) with h_i, the negative term swaps the roles
RECURSIVE KCrossScalars(_, _, _, _, _, _, _)
KCrossScalars(a, b, m, k, l, i, neg) ==
    IF i >= k - l THEN <<>>
    ELSE (IF neg THEN Chunk(a, m, i + l) \o Chunk(b, m, i)
                 ELSE Chunk(a, m, i) \o Chunk(b, m, i + l))
         \o KCrossScalars(a, b, m, k, l, i + 1, neg)

RECURSIVE KCrossPoints(_, _, _, _, _, _, _)
KCrossPoints(g, h, m, k, l, i, neg) ==
    IF i >= k - l THEN <<>>
    ELSE (IF neg THEN Chunk(g, m, i) \o Chunk(h, m, i + l)
                 ELSE Chunk(g, m, i + l) \o Chunk(h, m, i))
         \o KCrossPoints(g, h, m, k, l, i + 1, neg)

RECURSIVE KCrossValue(_, _, _, _, _, _, _)
KCrossValue(a, b, m, k, l, i, neg) ==
    IF i >= k - l THEN 0
    ELSE SAdd(IF neg THEN inner_product(Chunk(a, m, i + l), Chunk(b, m, i))
                     ELSE inner_product(Chunk(a, m, i), Chunk(b, m, i + l)),
              KCrossValue(a, b, m, k, l, i + 1, neg))

KCrossTerm(a, b, g, h, Q, m, k, l, neg) ==
    compress(PAdd(multiscalar_mul(KCrossScalars(a, b, m, k, l, 0, neg),
                                  KCrossPoints(g, h, m, k, l, 0, neg)),
                  PMul(KCrossValue(a, b, m, k, l, 0, neg), Q)))

\* a faulty variant: the negative terms are placed before the positive ones
KRoundPoints_negative_first(a, b, g, h, Q, m, k) ==
    Vec([idx \in 1..(2 * k - 2) |->
        IF idx <= k - 1 THEN KCrossTerm(a, b, g, h, Q, m, k, idx, TRUE)
                        ELSE KCrossTerm(a, b, g, h, Q, m, k, idx - (k - 1), FALSE)])

\* U_vec_round: the k-1 positive terms l = 1..k-1, then the k-1 negative terms
KRoundPoints(a, b, g, h, Q, m, k) ==
    Vec([idx \in 1..(2 * k - 2) |->
        IF idx <= k - 1 THEN KCrossTerm(a, b, g, h, Q, m, k, idx, FALSE)
                        ELSE KCrossTerm(a, b, g, h, Q, m, k, idx - (k - 1), TRUE)])

\* the transcript after the first cnt points of round j have been absorbed:
\* U_round, U_index, U_point for each point
KAbsorbPoints(T, j, U, cnt) ==
    Absorb(T, Vec([x \in 1..(3 * cnt) |->
                LET p == (x - 1) \div 3
                    q == (x - 1) % 3
                IN  IF q = 0 THEN <<"U_round", U64Bytes(j)>>
                    ELSE IF q = 1 THEN <<"U_index", U64Bytes(p)>>
                    ELSE <<"U_point", U[p + 1]>>]))

KChallengePrep(T, j) ==
    append_message(append_message(T, "challenge_prefix", CPrefix),
                   "challenge_index", U64Bytes(j))

\* one round of the loop of create; st = [a, b, g, h, n_j, T, U_vecs]
KRound(k, Q, st, j) ==
    LET rem == st.n_j % k
        pad == IF rem # 0 THEN k - rem ELSE 0
        a == PadScalars(st.a, pad)
        b == PadScalars(st.b, pad)
        g == PadPoints(st.g, pad)
        h == PadPoints(st.h, pad)
        n_j == st.n_j + pad
        m_j == n_j \div k
        U == KRoundPoints(a, b, g, h, Q, m_j, k)
        T1 == KChallengePrep(KAbsorbPoints(st.T, j, U, Len(U)), j)
        c == ChallengeValue(T1, "challenge_separator")
        c_inv == SInv(c)
        c_powers_a == GeoSeq(1, c, k)
        c_powers_b == GeoSeq(Last(GeoSeq(1, c, k)), c_inv, k)
    IN  [a |-> Vec([x \in 1..m_j |-> inner_product(Column(a, m_j, k, x), c_powers_a)]),
         b |-> Vec([x \in 1..m_j |-> inner_product(Column(b, m_j, k, x), c_powers_b)]),
         g |-> Vec([x \in 1..m_j |-> multiscalar_mul(c_powers_b, Column(g, m_j, k, x))]),
         h |-> Vec([x \in 1..m_j |-> multiscalar_mul(c_powers_a, Column(h, m_j, k, x))]),
         n_j |-> m_j,
         T |-> ChallengeState(T1, "challenge_separator"),
         U_vecs |-> Append(st.U_vecs, U)]

RECURSIVE KRounds(_, _, _, _, _)
KRounds(k, Q, st, j, d) ==
    IF j >= d THEN st ELSE KRounds(k, Q, KRound(k, Q, st, j), j + 1, d)

KCreateHeader(T, n, k) ==
    append_message(
        append_message(append_message(T, "protocol-name", KBulletName), "n", U64Bytes(n)),
        "k", U64Bytes(k))

\* K_BulletProof::create: the folded state after num_rounds rounds
KCreateRun(T, k, g_vec, h_vec, Q_point, a_vec, b_vec, num_rounds) ==
    KRounds(k, Q_point,
            [a |-> a_vec, b |-> b_vec, g |-> g_vec, h |-> h_vec, n_j |-> Len(a_vec),
             T |-> KCreateHeader(T, Len(a_vec), k), U_vecs |-> <<>>],
            0, num_rounds)

KProofOf(k, run) ==
    [k |-> k, U_vecs |-> run.U_vecs, a_final |-> run.a, b_final |-> run.b]

\* ---------------------------------------------- InnerProductProof::create
IppName == <<6>>

\* TranscriptProtocol::innerproduct_domain_sep
innerproduct_domain_sep(T, n) ==
    append_message(append_message(T, "dom-sep", IppName), "n", U64Bytes(n))

IsPowerOfTwo(n) == \E e \in 0..MaxLen : Pow(2, e) = n

Hadamard(a, b) == Vec([i \in 1..Min(Len(a), Len(b)) |-> SMul(a[i], b[i])])

\* one halving of the classical argument; st = [a, b, G, H, n, T, L_vec, R_vec].
\* The first halving weighs the H side with Hprime_factors, the later ones do not
IppRound(Q, Hprime_factors, st, first) ==
    LET n == st.n \div 2
        a_L == SubSeq(st.a, 1, n)
        a_R == SubSeq(st.a, n + 1, 2 * n)
        b_L == SubSeq(st.b, 1, n)
        b_R == SubSeq(st.b, n + 1, 2 * n)
        G_L == SubSeq(st.G, 1, n)
        G_R == SubSeq(st.G, n + 1, 2 * n)
        H_L == SubSeq(st.H, 1, n)
        H_R == SubSeq(st.H, n + 1, 2 * n)
        y_L == IF first THEN SubSeq(Hprime_factors, 1, n) ELSE Vec([i \in 1..n |-> 1])
        y_R == IF first THEN SubSeq(Hprime_factors, n + 1, 2 * n) ELSE Vec([i \in 1..n |-> 1])
        c_L == inner_product(a_L, b_R)
        c_R == inner_product(a_R, b_L)
        L == compress(multiscalar_mul(a_L \o Hadamard(b_R, y_L) \o <<c_L>>, G_R \o H_L \o <<Q>>))
        R == compress(multiscalar_mul(a_R \o Hadamard(b_L, y_R) \o <<c_R>>, G_L \o H_R \o <<Q>>))
        T1 == commit_point(commit_point(st.T, "L", L), "R", R)
        u == ChallengeValue(T1, "u")
        u_inv == SInv(u)
    IN  [a |-> Vec([i \in 1..n |-> SAdd(SMul(a_L[i], u), SMul(u_inv, a_R[i]))]),
         b |-> Vec([i \in 1..n |-> SAdd(SMul(b_L[i], u_inv), SMul(u, b_R[i]))]),
         G |-> Vec([i \in 1..n |-> multiscalar_mul(<<u_inv, u>>, <<G_L[i], G_R[i]>>)]),
         H |-> Vec([i \in 1..n |-> multiscalar_mul(<<SMul(u, y_L[i]), SMul(u_inv, y_R[i])>>,
                                                   <<H_L[i], H_R[i]>>)]),
         n |-> n,
         T |-> ChallengeState(T1, "u"),
         L_vec |-> Append(st.L_vec, L),
         R_vec |-> Append(st.R_vec, R)]

RECURSIVE IppRounds(_, _, _, _)
IppRounds(Q, Hprime_factors, st, first) ==
    IF st.n = 1 THEN st
    ELSE IppRounds(Q, Hprime_factors, IppRound(Q, Hprime_factors, st, first), FALSE)

\* InnerProductProof::create; the vectors have the same length n >= 1
InnerProductProof_create(T, Q, Hprime_factors, G_vec, H_vec, a_vec, b_vec) ==
    LET n == Len(G_vec)
    IN  IF ~IsPowerOfTwo(n) THEN [tag |-> "Panic", T |-> T]
        ELSE [tag |-> "Ok"]
             @@ IppRounds(Q, Hprime_factors,
                          [a |-> a_vec, b |-> b_vec, G |-> G_vec, H |-> H_vec, n |-> n,
                           T |-> innerproduct_domain_sep(T, n), L_vec |-> <<>>, R_vec |-> <<>>],
                          TRUE)

\* ------------------------------------------- K_BulletProof::verification_scalars
BlowUp(s, block) ==
    Vec([x \in 1..(Len(s) * Len(block)) |->
        SMul(s[((x - 1) % Len(s)) + 1], block[((x - 1) \div Len(s)) + 1])])
Truncate(s, n) == SubSeq(s, 1, Min(n, Len(s)))

\* a faulty variant: the blown-up vector is not cut to the length of the round
RECURSIVE Expand_uncut(_, _, _, _, _)
Expand_uncut(s, ratios, k, lens, r) ==
    IF r = 0 THEN s
    ELSE Expand_uncut(BlowUp(s, GeoSeq(1, ratios[r], k)), ratios, k, lens, r - 1)

\* rounds r = d-1 .. 0: tensor with the k powers of ratios[r], cut to round_lengths[r]
RECURSIVE Expand(_, _, _, _, _)
Expand(s, ratios, k, lens, r) ==
    IF r = 0 THEN s
    ELSE Expand(Truncate(BlowUp(s, GeoSeq(1, ratios[r], k)), lens[r]), ratios, k, lens, r - 1)

\* product over the rounds after round r (counted from 1) of challenges^e
RECURSIVE SuffixProd(_, _, _)
SuffixProd(cs, e, r) ==
    IF r >= Len(cs) THEN 1
    ELSE SMul(scalar_pow(cs[r + 1], e), SuffixProd(cs, e, r + 1))

\* a faulty variant: the points of every round are absorbed with the round index 0
RECURSIVE KReplay_round_zero(_, _, _)
KReplay_round_zero(T, P, r) ==
    IF r = 0 THEN [T |-> T, cs |-> <<>>]
    ELSE LET prev == KReplay_round_zero(T, P, r - 1)
             T1 == KChallengePrep(KAbsorbPoints(prev.T, 0, P.U_vecs[r], 2 * P.k - 2), r - 1)
         IN  [T |-> ChallengeState(T1, "challenge_separator"),
              cs |-> Append(prev.cs, ChallengeValue(T1, "challenge_separator"))]

\* the challenges regenerated from the stored points: [T, cs]
RECURSIVE KReplay(_, _, _)
KReplay(T, P, r) ==
    IF r = 0 THEN [T |-> T, cs |-> <<>>]
    ELSE LET prev == KReplay(T, P, r - 1)
             T1 == KChallengePrep(KAbsorbPoints(prev.T, r - 1, P.U_vecs[r], 2 * P.k - 2), r - 1)
         IN  [T |-> ChallengeState(T1, "challenge_separator"),
              cs |-> Append(prev.cs, ChallengeValue(T1, "challenge_separator"))]

\* a faulty variant: the exponents of the two halves of a round are exchanged
K_s_U_halves_swapped(cs, k) ==
    Vec([x \in 1..(Len(cs) * (2 * k - 2)) |->
        LET r == ((x - 1) \div (2 * k - 2)) + 1
            i == (x - 1) % (2 * k - 2)
            exp == IF i < k - 1 THEN k - 1 + (i + 1) ELSE k - 1 - (i - (k - 1) + 1)
        IN  SMul(scalar_pow(cs[r], exp), SuffixProd(cs, k - 1, r))])

K_s_U(cs, k) ==
    Vec([x \in 1..(Len(cs) * (2 * k - 2)) |->
        LET r == ((x - 1) \div (2 * k - 2)) + 1
            i == (x - 1) % (2 * k - 2)
            exp == IF i < k - 1 THEN k - 1 - (i + 1) ELSE k - 1 + (i - (k - 1) + 1)
        IN  SMul(scalar_pow(cs[r], exp), SuffixProd(cs, k - 1, r))])

\* the part of verification_scalars after the length test: the header and the
\* stored points are absorbed, the challenges regenerated, the scalars computed
K_scalars_of(P, n, T, round_lengths) ==
    LET k == P.k
        d == Len(P.U_vecs)
        rp == KReplay(KCreateHeader(T, n, k), P, d)
        challenges == rp.cs
        challenges_inv == Vec([r \in 1..d |-> SInv(challenges[r])])
        s_P == SuffixProd(challenges, k - 1, 0)
        s_g == Expand(P.a_final, challenges_inv, k, round_lengths, d)
    IN  [tag |-> "Ok", T |-> rp.T,
         s_g |-> Vec([x \in 1..Len(s_g) |-> SMul(s_g[x], s_P)]),
         s_h |-> Expand(P.b_final, challenges, k, round_lengths, d),
         s_Q_final |-> inner_product(P.a_final, P.b_final),
         s_P |-> s_P,
         s_U |-> K_s_U(challenges, k)]

\* a faulty variant: the header is absorbed before the lengths are compared
K_verification_scalars_header_first(P, n, T) ==
    LET round_lengths == reconstruct_round_lengths(n, P.k, Len(P.U_vecs))
        m == Last(round_lengths)
    IN  IF n = 0 THEN [tag |-> "InvalidGeneratorsLength", T |-> T]
        ELSE IF Len(P.a_final) # m \/ Len(P.b_final) # m
        THEN [tag |-> "VerificationError", T |-> KCreateHeader(T, n, P.k)]
        ELSE K_scalars_of(P, n, T, round_lengths)

K_verification_scalars(P, n, T) ==
    LET k == P.k
        d == Len(P.U_vecs)
        round_lengths == reconstruct_round_lengths(n, k, d)
        m == Last(round_lengths)
    IN  IF n = 0 THEN [tag |-> "InvalidGeneratorsLength", T |-> T]
        ELSE IF Len(P.a_final) # m \/ Len(P.b_final) # m
        THEN [tag |-> "VerificationError", T |-> T]
        ELSE K_scalars_of(P, n, T, round_lengths)

\* the stored points of all rounds, 2k-2 per round, in order
RoundPoints(vecs, k) ==
    Vec([x \in 1..(Len(vecs) * (2 * k - 2)) |->
            vecs[((x - 1) \div (2 * k - 2)) + 1][((x - 1) % (2 * k - 2)) + 1]])

NegAll(ss) == Vec([x \in 1..Len(ss) |-> SNeg(ss[x])])

K_verify(P, T, g_vec, h_vec, Q_point, P_point) ==
    LET n == Len(g_vec)
        vs == K_verification_scalars(P, n, T)
        U == RoundPoints(P.U_vecs, P.k)
    IN  IF Len(h_vec) # n THEN [tag |-> "InvalidGeneratorsLength", T |-> T]
        ELSE IF vs.tag # "Ok" THEN [tag |-> vs.tag, T |-> vs.T]
        ELSE IF \E x \in 1..Len(U) : ~CanDecompress(U[x])
        THEN [tag |-> "VerificationError", T |-> vs.T]
        ELSE LET scalars == vs.s_g \o vs.s_h \o <<vs.s_Q_final, SNeg(vs.s_P)>>
                            \o NegAll(vs.s_U)
                 points == g_vec \o h_vec \o <<Q_point, P_point>>
                           \o Vec([x \in 1..Len(U) |-> decompress(U[x])])
                 check == multiscalar_mul(scalars, points)
             IN  [tag |-> IF IsIdentity(check) THEN "Ok" ELSE "VerificationError",
                  T |-> vs.T]

\* ------------------------------------------------ K_BulletProof byte encoding
\* a 32-byte cell whose first 8 bytes are the u64 x, little-endian
\* a faulty variant: the u64 is written at the end of the cell
Cell_right_aligned(x) == Zeros(PointLen - 8) \o U64Bytes(x)

Cell(x) == U64Bytes(x) \o Zeros(PointLen - 8)

\* the u64 in the first 8 bytes of the cell at byte offset pos (the inputs of
\* the model keep the bytes above the third at 0)
U64At(slice, pos) == slice[pos + 1] + 256 * slice[pos + 2] + 65536 * slice[pos + 3]

\* read32(&slice[pos..])
read32(slice, pos) == SubSeq(slice, pos + 1, pos + PointLen)

\* the concatenation of items that all have the length of the first one
Concat(items) ==
    IF Len(items) = 0 THEN <<>>
    ELSE LET w == Len(items[1])
         IN  Vec([x \in 1..(w * Len(items)) |->
                     items[((x - 1) \div w) + 1][((x - 1) % w) + 1]])

K_serialized_size(P) ==
    LET d == Len(P.U_vecs)
        num_points == IF d > 0 THEN d * (2 * P.k - 2) ELSE 0
        m == Len(P.a_final)
    IN  (3 + num_points + 2 * m) * PointLen

K_to_bytes(P) ==
    Cell(P.k) \o Cell(Len(P.U_vecs)) \o Cell(Len(P.a_final))
    \o Concat(Vec([x \in 1..Len(P.U_vecs) |-> Concat(P.U_vecs[x])]))
    \o Concat(Vec([x \in 1..Len(P.a_final) |-> ScalarBytes(P.a_final[x])]))
    \o Concat(Vec([x \in 1..Len(P.b_final) |-> ScalarBytes(P.b_final[x])]))

\* cnt items of width bytes each read from pos on: every read is preceded by the
\* test pos + width > b, so all of them pass iff the last one does
CanReadAll(b, pos, cnt, width) == pos + cnt * width <= b

\* 2 * k - 2 underflows for k = 0: a build with overflow checks panics there, a
\* build without them panics when the wrapped value is used as a capacity (d > 0)
K_from_bytes(slice, checked) ==
    LET b == Len(slice)
    IN  IF b < PointLen * 3 THEN [tag |-> "FormatError"]
        ELSE LET k == U64At(slice, 0)
                 d == U64At(slice, PointLen)
                 m == U64At(slice, 2 * PointLen)
                 points_per_round == 2 * k - 2
                 posU == 3 * PointLen
                 posA == posU + d * points_per_round * PointLen
                 posB == posA + m * PointLen
             IN  IF k = 0 /\ (checked \/ d > 0) THEN [tag |-> "Panic"]
                 ELSE IF ~CanReadAll(b, posU, d * points_per_round, PointLen)
                 THEN [tag |-> "FormatError"]
                 ELSE IF ~CanReadAll(b, posA, m, PointLen)
                         \/ \E x \in 0..(m - 1) : ~IsCanonical(read32(slice, posA + x * PointLen))
                 THEN [tag |-> "FormatError"]
                 ELSE IF ~CanReadAll(b, posB, m, PointLen)
                         \/ \E x \in 0..(m - 1) : ~IsCanonical(read32(slice, posB + x * PointLen))
                 THEN [tag |-> "FormatError"]
                 ELSE [tag |-> "Ok",
                       val |-> [k |-> k,
                                U_vecs |-> Vec([r \in 1..d |->
                                    Vec([i \in 1..points_per_round |->
                                        read32(slice, posU + ((r - 1) * points_per_round + (i - 1)) * PointLen)])]),
                                a_final |-> Vec([x \in 1..m |->
                                    ScalarFromBytes(read32(slice, posA + (x - 1) * PointLen))]),
                                b_final |-> Vec([x \in 1..m |->
                                    ScalarFromBytes(read32(slice, posB + (x - 1) * PointLen))])]]

\* -------------------------------------------------------- batched_eCP::create
GensC1(n) == Vec([i \in 1..n |-> Unit(IdxC1(i))])

\* the scalars of cross term i: blocks a_(l-1) for l = 1..i in the first loop,
\* blocks a_(i+l-1) for l = 1..k-i in the second
RECURSIVE ECrossScalars(_, _, _, _, _, _)
ECrossScalars(a, m, k, i, l, second) ==
    IF l > (IF second THEN k - i ELSE i) THEN <<>>
    ELSE Chunk(a, m, IF second THEN i + l - 1 ELSE l - 1)
         \o ECrossScalars(a, m, k, i, l + 1, second)

\* the points of cross term i: blocks G_(k-i+l-1) in the first loop, G_(l-1) in the second
RECURSIVE ECrossPoints(_, _, _, _, _, _)
ECrossPoints(G, m, k, i, l, second) ==
    IF l > (IF second THEN k - i ELSE i) THEN <<>>
    ELSE Chunk(G, m, IF second THEN l - 1 ELSE k - i + l - 1)
         \o ECrossPoints(G, m, k, i, l + 1, second)

ECrossTerm(a, G, C1, m, k, i, second) ==
    << compress(multiscalar_mul(ECrossScalars(a, m, k, i, 1, second),
                                ECrossPoints(G, m, k, i, 1, second))),
       compress(multiscalar_mul(ECrossScalars(a, m, k, i, 1, second),
                                ECrossPoints(C1, m, k, i, 1, second))) >>

\* A_vecs_round: the k-1 pairs of the first loop, then the k-1 pairs of the second
ERoundPoints(a, G, C1, m, k) ==
    Vec([idx \in 1..(2 * k - 2) |->
            IF idx <= k - 1 THEN ECrossTerm(a, G, C1, m, k, idx, FALSE)
                            ELSE ECrossTerm(a, G, C1, m, k, idx - (k - 1), TRUE)])

\* A_round, A_index, A_point_0, A_point_1 for each of the first cnt pairs of round j
EAbsorbPoints(T, j, A, cnt) ==
    Absorb(T, Vec([x \in 1..(4 * cnt) |->
                LET p == (x - 1) \div 4
                    q == (x - 1) % 4
                IN  IF q = 0 THEN <<"A_round", U64Bytes(j)>>
                    ELSE IF q = 1 THEN <<"A_index", U64Bytes(p)>>
                    ELSE IF q = 2 THEN <<"A_point_0", A[p + 1][1]>>
                    ELSE <<"A_point_1", A[p + 1][2]>>]))

\* one round of the loop of create; st = [a, G, C1, n_j, T, A_vecs]
ERound(k, st, j) ==
    LET rem == st.n_j % k
        pad == IF rem # 0 THEN k - rem ELSE 0
        a == PadScalars(st.a, pad)
        G == PadPoints(st.G, pad)
        C1 == PadPoints(st.C1, pad)
        n_j == st.n_j + pad
        m_j == n_j \div k
        A == ERoundPoints(a, G, C1, m_j, k)
        T1 == KChallengePrep(EAbsorbPoints(st.T, j, A, Len(A)), j)
        c == ChallengeValue(T1, "challenge_separator")
        c_inv == SInv(c)
        c_powers_a == GeoSeq(1, c, k)
        c_powers_bases == GeoSeq(scalar_pow(c, k), c_inv, k)
    IN  [a |-> Vec([x \in 1..m_j |-> inner_product(Column(a, m_j, k, x), c_powers_a)]),
         G |-> Vec([x \in 1..m_j |-> multiscalar_mul(c_powers_bases, Column(G, m_j, k, x))]),
         C1 |-> Vec([x \in 1..m_j |-> multiscalar_mul(c_powers_bases, Column(C1, m_j, k, x))]),
         n_j |-> m_j,
         T |-> ChallengeState(T1, "challenge_separator"),
         A_vecs |-> Append(st.A_vecs, A)]

RECURSIVE ERounds(_, _, _, _)
ERounds(k, st, j, d) ==
    IF j >= d THEN st ELSE ERounds(k, ERound(k, st, j), j + 1, d)

ECreateHeader(T, n, k) ==
    append_message(
        append_message(append_message(T, "protocol-name", KIppName), "n", U64Bytes(n)),
        "k", U64Bytes(k))

\* batched_eCP::create: the folded state after num_rounds rounds; a C1_vec shorter
\* than a_vec is filled up with identity points
ECreateRun(T, k, G_vec, C1_vec, a_vec, num_rounds) ==
    LET n == Len(a_vec)
        C1_curr == IF Len(C1_vec) < n THEN PadPoints(C1_vec, n - Len(C1_vec)) ELSE C1_vec
    IN  ERounds(k,
                [a |-> a_vec, G |-> G_vec, C1 |-> C1_curr, n_j |-> n,
                 T |-> ECreateHeader(T, n, k), A_vecs |-> <<>>],
                0, num_rounds)

EProofOf(k, run) == [k |-> k, A_vecs |-> run.A_vecs, z |-> run.a]

\* ------------------------------------------ batched_eCP::verification_scalars
RECURSIVE EReplay(_, _, _)
EReplay(T, P, r) ==
    IF r = 0 THEN [T |-> T, cs |-> <<>>]
    ELSE LET prev == EReplay(T, P, r - 1)
             T1 == KChallengePrep(EAbsorbPoints(prev.T, r - 1, P.A_vecs[r], 2 * P.k - 2), r - 1)
         IN  [T |-> ChallengeState(T1, "challenge_separator"),
              cs |-> Append(prev.cs, ChallengeValue(T1, "challenge_separator"))]

\* a faulty variant: the suffix product of the round is left out
E_s_A_no_suffix(cs, k) ==
    Vec([x \in 1..(Len(cs) * (2 * k - 2)) |->
        LET r == ((x - 1) \div (2 * k - 2)) + 1
            i == (x - 1) % (2 * k - 2)
            exp == IF i < k - 1 THEN i + 1 ELSE k + (i - (k - 1) + 1)
        IN  scalar_pow(cs[r], exp)])

E_s_A(cs, k) ==
    Vec([x \in 1..(Len(cs) * (2 * k - 2)) |->
        LET r == ((x - 1) \div (2 * k - 2)) + 1
            i == (x - 1) % (2 * k - 2)
            exp == IF i < k - 1 THEN i + 1 ELSE k + (i - (k - 1) + 1)
        IN  SMul(scalar_pow(cs[r], exp), SuffixProd(cs, k, r))])

E_verification_scalars(P, n, T) ==
    LET k == P.k
        d == Len(P.A_vecs)
        round_lengths == reconstruct_round_lengths(n, k, d)
        m == Last(round_lengths)
    IN  IF Len(P.z) # m THEN [tag |-> "VerificationError", T |-> T]
        ELSE LET rp == EReplay(ECreateHeader(T, n, k), P, d)
                 challenges == rp.cs
                 challenges_inv == Vec([r \in 1..d |-> SInv(challenges[r])])
                 s_P == SuffixProd(challenges, k, 0)
                 z_s == Expand(P.z, challenges_inv, k, round_lengths, d)
             IN  [tag |-> "Ok", T |-> rp.T,
                  z_s_vec |-> Vec([x \in 1..Len(z_s) |-> SMul(z_s[x], s_P)]),
                  s_P |-> s_P,
                  s_A_vec |-> E_s_A(challenges, k)]

\* verification_scalars of a proof whose arity field may be below 2, in a build
\* with (checked) or without overflow checks. K_BulletProof: after the n = 0
\* test, reconstruct_round_lengths computes n % k in every round, a division by
\* zero for k = 0 and d > 0; with no round, (k - 1) as u64 underflows for k = 0,
\* which panics with overflow checks and wraps without them. No line tests k
\* itself, so k = 1 runs the same code as k >= 2.
K_verification_scalars_any_k(P, n, T, checked) ==
    IF n # 0 /\ P.k = 0 /\ Len(P.U_vecs) > 0 THEN [tag |-> "Panic", T |-> T]
    ELSE LET r == K_verification_scalars(P, n, T)
         IN  IF P.k = 0 /\ checked /\ r.tag = "Ok" THEN [tag |-> "Panic", T |-> r.T]
             ELSE r

\* batched_eCP: no n = 0 test; the same n % k; with no round the capacity
\* d * (2 * k - 2) underflows for k = 0
E_verification_scalars_any_k(P, n, T, checked) ==
    IF P.k = 0 /\ Len(P.A_vecs) > 0 THEN [tag |-> "Panic", T |-> T]
    ELSE LET r == E_verification_scalars(P, n, T)
         IN  IF P.k = 0 /\ checked /\ r.tag = "Ok" THEN [tag |-> "Panic", T |-> r.T]
             ELSE r

E_verify(P, T, G_vec, C1_vec, P0, P1) ==
    LET n == Len(G_vec)
        vs == E_verification_scalars(P, n, T)
        A == RoundPoints(P.A_vecs, P.k)
    IN  IF vs.tag # "Ok" THEN [tag |-> "VerificationError", T |-> vs.T]
        ELSE LET r1 == ChallengeValue(vs.T, "r1")
                 T2 == ChallengeState(vs.T, "r1")
             IN  IF \E x \in 1..Len(A) : ~CanDecompress(A[x][1]) \/ ~CanDecompress(A[x][2])
                 THEN [tag |-> "VerificationError", T |-> T2]
                 ELSE LET A_points_combined ==
                              Vec([x \in 1..Len(A) |->
                                      PAdd(decompress(A[x][1]), PMul(r1, decompress(A[x][2])))])
                          z_s_r1 == Vec([x \in 1..Len(vs.z_s_vec) |-> SMul(vs.z_s_vec[x], r1)])
                          P_comb == PAdd(P0, PMul(r1, P1))
                          scalars == vs.z_s_vec \o z_s_r1 \o <<SNeg(vs.s_P)>> \o NegAll(vs.s_A_vec)
                          points == G_vec \o C1_vec \o <<P_comb>> \o A_points_combined
                          check == multiscalar_mul(scalars, points)
                      IN  [tag |-> IF IsIdentity(check) THEN "Ok" ELSE "VerificationError",
                           T |-> T2]

\* ---------------------------------------------------- batched_eCP byte encoding
E_serialized_size(P) ==
    LET d == Len(P.A_vecs)
        num_points == IF d > 0 THEN d * (2 * P.k - 2) * 2 ELSE 0
        m == Len(P.z)
    IN  (3 + num_points + m) * PointLen

\* a faulty variant: only the first point of every pair is written
E_to_bytes_first_points(P) ==
    Cell(P.k) \o Cell(Len(P.A_vecs)) \o Cell(Len(P.z))
    \o Concat(Vec([x \in 1..Len(P.A_vecs) |->
           Concat(Vec([y \in 1..Len(P.A_vecs[x]) |-> P.A_vecs[x][y][1]]))]))
    \o Concat(Vec([x \in 1..Len(P.z) |-> ScalarBytes(P.z[x])]))

E_to_bytes(P) ==
    Cell(P.k) \o Cell(Len(P.A_vecs)) \o Cell(Len(P.z))
    \o Concat(Vec([x \in 1..Len(P.A_vecs) |->
           Concat(Vec([y \in 1..Len(P.A_vecs[x]) |->
               P.A_vecs[x][y][1] \o P.A_vecs[x][y][2]]))]))
    \o Concat(Vec([x \in 1..Len(P.z) |-> ScalarBytes(P.z[x])]))

E_from_bytes(slice) ==
    LET b == Len(slice)
    IN  IF b < PointLen * 3 THEN [tag |-> "FormatError"]
        ELSE LET k == U64At(slice, 0)
                 d == U64At(slice, PointLen)
                 m == U64At(slice, 2 * PointLen)
                 pairs_per_round == 2 * k - 2
                 posA == 3 * PointLen
                 posZ == posA + d * pairs_per_round * 2 * PointLen
             IN  IF k = 0 /\ d > 0 THEN [tag |-> "Panic"]
                 ELSE IF ~CanReadAll(b, posA, d * pairs_per_round, 2 * PointLen)
                 THEN [tag |-> "FormatError"]
                 ELSE IF ~CanReadAll(b, posZ, m, PointLen)
                         \/ \E x \in 0..(m - 1) : ~IsCanonical(read32(slice, posZ + x * PointLen))
                 THEN [tag |-> "FormatError"]
                 ELSE [tag |-> "Ok",
                       val |-> [k |-> k,
                                A_vecs |-> Vec([r \in 1..d |->
                                    Vec([i \in 1..pairs_per_round |->
                                        LET pos == posA + ((r - 1) * pairs_per_round + (i - 1)) * 2 * PointLen
                                        IN  <<read32(slice, pos), read32(slice, pos + PointLen)>>])]),
                                z |-> Vec([x \in 1..m |->
                                    ScalarFromBytes(read32(slice, posZ + (x - 1) * PointLen))])]]

\* ------------------------------------------------- the folding arguments' runs
\* witness vectors: a_i = wa * i, b_i = wb + i
WitA(n, w) == Vec([i \in 1..n |-> (w * i) % Order])
WitB(n, w) == Vec([i \in 1..n |-> (w + i) % Order])

FoldConfigs ==
    { [kind |-> "K_BulletProof", k |-> k, d |-> d, n |-> n,
       a |-> WitA(n, wa), b |-> WitB(n, wb), seed |-> seed] :
        k \in 2..MaxK, d \in 0..MaxD, n \in 1..MaxLen,
        wa \in 0..MaxWit, wb \in 0..MaxWit, seed \in 0..MaxSeed }
    \cup
    { [kind |-> "batched_eCP", k |-> k, d |-> d, n |-> n,
       a |-> WitA(n, wa), b |-> <<>>, seed |-> seed] :
        k \in 2..MaxK, d \in 0..MaxD, n \in 1..MaxLen,
        wa \in 0..MaxWit, seed \in 0..MaxSeed }

None == [tag |-> "None"]

\* P = <a,G> + <b,H> + <a,b> Q
KStatement(c) ==
    PAdd(PAdd(multiscalar_mul(c.a, GensG(c.n)), multiscalar_mul(c.b, GensH(c.n))),
         PMul(inner_product(c.a, c.b), B))

InitFold ==
    /\ pc = "init"
    /\ cfg \in FoldConfigs
    /\ pt = NewTranscript(cfg.seed)
    /\ vt = NewTranscript(cfg.seed)
    /\ proof = None
    /\ wire = <<>>
    /\ decoded = None
    /\ result = None
    /\ prv = None
    /\ vrf = None

KB_Create ==
    /\ pc = "init"
    /\ cfg.kind = "K_BulletProof"
    /\ \E run \in {KCreateRun(pt, cfg.k, GensG(cfg.n), GensH(cfg.n), B, cfg.a, cfg.b, cfg.d)} :
           /\ proof' = KProofOf(cfg.k, run)
           /\ pt' = run.T
    /\ pc' = "created"
    /\ UNCHANGED <<prv, vrf, cfg, vt, wire, decoded, result>>

KB_Verify ==
    /\ pc = "created"
    /\ cfg.kind = "K_BulletProof"
    /\ \E r \in {K_verify(proof, vt, GensG(cfg.n), GensH(cfg.n), B, KStatement(cfg))} :
           /\ result' = [tag |-> r.tag]
           /\ vt' = r.T
    /\ pc' = "verified"
    /\ UNCHANGED <<prv, vrf, cfg, pt, proof, wire, decoded>>

\* verification_scalars called with a claimed length
KB_VerificationScalars ==
    /\ pc = "created"
    /\ cfg.kind = "K_BulletProof"
    /\ \E nClaim \in 0..(MaxLen + 1) :
       \E r \in {K_verification_scalars(proof, nClaim, vt)} :
              /\ result' = [tag |-> r.tag, n |-> nClaim]
              /\ vt' = r.T
    /\ pc' = "scalars"
    /\ UNCHANGED <<prv, vrf, cfg, pt, proof, wire, decoded>>

KB_ToBytes ==
    /\ pc = "created"
    /\ cfg.kind = "K_BulletProof"
    /\ wire' = K_to_bytes(proof)
    /\ pc' = "encoded"
    /\ UNCHANGED <<prv, vrf, cfg, pt, vt, proof, decoded, result>>

\* where a decoder's answer is kept, by the origin of the bytes
DecodedFrom(at) ==
    CASE at = "encoded" -> "decoded"
      [] at = "altered" -> "decoded_altered"
      [] at = "header_altered" -> "decoded_header"

KB_FromBytes ==
    /\ pc \in {"encoded", "altered", "header_altered"}
    /\ cfg.kind = "K_BulletProof"
    /\ \E checked \in BOOLEAN : decoded' = K_from_bytes(wire, checked)
    /\ pc' = DecodedFrom(pc)
    /\ UNCHANGED <<prv, vrf, cfg, pt, vt, proof, wire, result>>

P0Statement(c) == multiscalar_mul(c.a, GensG(c.n))
P1Statement(c) == multiscalar_mul(c.a, GensC1(c.n))

ECP_Create ==
    /\ pc = "init"
    /\ cfg.kind = "batched_eCP"
    /\ \E run \in {ECreateRun(pt, cfg.k, GensG(cfg.n), GensC1(cfg.n), cfg.a, cfg.d)} :
           /\ proof' = EProofOf(cfg.k, run)
           /\ pt' = run.T
    /\ pc' = "created"
    /\ UNCHANGED <<prv, vrf, cfg, vt, wire, decoded, result>>

ECP_Verify ==
    /\ pc = "created"
    /\ cfg.kind = "batched_eCP"
    /\ \E r \in {E_verify(proof, vt, GensG(cfg.n), GensC1(cfg.n),
                          P0Statement(cfg), P1Statement(cfg))} :
           /\ result' = [tag |-> r.tag]
           /\ vt' = r.T
    /\ pc' = "verified"
    /\ UNCHANGED <<prv, vrf, cfg, pt, proof, wire, decoded>>

ECP_VerificationScalars ==
    /\ pc = "created"
    /\ cfg.kind = "batched_eCP"
    /\ \E nClaim \in 0..(MaxLen + 1) :
       \E r \in {E_verification_scalars(proof, nClaim, vt)} :
              /\ result' = [tag |-> r.tag, n |-> nClaim]
              /\ vt' = r.T
    /\ pc' = "scalars"
    /\ UNCHANGED <<prv, vrf, cfg, pt, proof, wire, decoded>>

ECP_ToBytes ==
    /\ pc = "created"
    /\ cfg.kind = "batched_eCP"
    /\ wire' = E_to_bytes(proof)
    /\ pc' = "encoded"
    /\ UNCHANGED <<prv, vrf, cfg, pt, vt, proof, decoded, result>>

ECP_FromBytes ==
    /\ pc \in {"encoded", "altered", "header_altered"}
    /\ cfg.kind = "batched_eCP"
    /\ decoded' = E_from_bytes(wire)
    /\ pc' = DecodedFrom(pc)
    /\ UNCHANGED <<prv, vrf, cfg, pt, vt, proof, wire, result>>

\* a proof whose arity field is below 2: d rounds without points and final
\* vectors of the n entries that such an arity leaves unfolded
SmallArityProof(c, k) ==
    LET rounds == Vec([r \in 1..c.d |-> <<>>])
    IN  IF c.kind = "K_BulletProof"
        THEN [k |-> k, U_vecs |-> rounds, a_final |-> c.a, b_final |-> c.b]
        ELSE [k |-> k, A_vecs |-> rounds, z |-> c.a]

\* verification_scalars called on such a proof for the n of the statement; the
\* proof presented is kept in decoded
SmallArity_VerificationScalars ==
    /\ pc = "created"
    /\ \E k \in 0..1, checked \in BOOLEAN :
       \E P \in {SmallArityProof(cfg, k)} :
       \E r \in {IF cfg.kind = "K_BulletProof"
                 THEN K_verification_scalars_any_k(P, cfg.n, vt, checked)
                 ELSE E_verification_scalars_any_k(P, cfg.n, vt, checked)} :
              /\ decoded' = P
              /\ result' = [tag |-> r.tag, n |-> cfg.n, checked |-> checked]
              /\ vt' = r.T
    /\ pc' = "small_arity"
    /\ UNCHANGED <<prv, vrf, cfg, pt, proof, wire>>

\* the bytes handed to a decoder need not be an encoder's output: up to MaxExtra
\* bytes are appended to, or cut from, the encoding
AlterLength ==
    /\ pc = "encoded"
    /\ \E delta \in 1..MaxExtra :
          \/ wire' = wire \o Zeros(delta)
          \/ wire' = SubSeq(wire, 1, Len(wire) - delta)
    /\ pc' = "altered"
    /\ UNCHANGED <<prv, vrf, cfg, pt, vt, proof, decoded, result>>

\* header bytes that an encoder never writes: the low byte of k set to 0, and the
\* first or the last padding byte (bytes 8..32) of the k, d or m cell set to 1;
\* each is a pair <<index, value>>
HeaderAlterations ==
    {<<1, 0>>} \cup {<<c * PointLen + o, 1>> : c \in 0..2, o \in {9, PointLen}}

AlterHeader ==
    /\ pc = "encoded"
    /\ \E alt \in HeaderAlterations : wire' = [wire EXCEPT ![alt[1]] = alt[2]]
    /\ pc' = "header_altered"
    /\ UNCHANGED <<prv, vrf, cfg, pt, vt, proof, decoded, result>>

\* InnerProductProof::create on the inputs of K_BulletProof::create, with unit
\* Hprime_factors and from the same initial transcript; the run is kept in decoded
\* and its transcript in vt
IPP_Create ==
    /\ pc = "created"
    /\ cfg.kind = "K_BulletProof"
    /\ \E run \in {InnerProductProof_create(vt, B, Vec([i \in 1..cfg.n |-> 1]), GensG(cfg.n),
                                           GensH(cfg.n), cfg.a, cfg.b)} :
           /\ decoded' = run
           /\ vt' = run.T
    /\ pc' = "classical"
    /\ UNCHANGED <<prv, vrf, cfg, pt, proof, wire, result>>

NextFold ==
    \/ KB_Create \/ KB_Verify \/ KB_VerificationScalars \/ KB_ToBytes \/ KB_FromBytes
    \/ ECP_Create \/ ECP_Verify \/ ECP_VerificationScalars \/ ECP_ToBytes \/ ECP_FromBytes
    \/ AlterLength \/ IPP_Create \/ SmallArity_VerificationScalars \/ AlterHeader

SpecFold == InitFold /\ [][NextFold]_vars

\* ------------------------------------------------------- the round lengths
\* benches/r1cs.rs: reconstruct_round_lengths_helper
RECURSIVE reconstruct_round_lengths_helper(_, _, _)
reconstruct_round_lengths_helper(n, k, d) ==
    IF d = 0 THEN <<n>>
    ELSE LET rem == n % k
             pad == IF rem = 0 THEN 0 ELSE k - rem
             n_padded == n + pad
         IN  <<n>> \o reconstruct_round_lengths_helper(n_padded \div k, k, d - 1)

\* K_BulletProof::create: the length n_j at the start of every round and after the
\* last one
RECURSIVE create_round_lengths(_, _, _)
create_round_lengths(n_j, k, num_rounds) ==
    IF num_rounds = 0 THEN <<n_j>>
    ELSE LET rem == n_j % k
             padded == IF rem # 0 THEN n_j + (k - rem) ELSE n_j
             m_j == padded \div k
         IN  <<n_j>> \o create_round_lengths(m_j, k, num_rounds - 1)

\* find_optimal_pad_config: the stop length m for the reduction factor r = k^d
ConfigStopLength(n_inputs, k, d) ==
    LET r == Pow(k, d)
    IN  (n_inputs + r - 1) \div r

LengthConfigs ==
    { [kind |-> "lengths", n |-> n, k |-> k, d |-> d] :
        n \in 1..MaxLenN, k \in 2..MaxLenK, d \in 0..MaxLenD }

InitLengths ==
    /\ pc = "init"
    /\ cfg \in LengthConfigs
    /\ pt = NewTranscript(0)
    /\ vt = NewTranscript(0)
    /\ proof = None
    /\ wire = <<>>
    /\ decoded = None
    /\ result = None
    /\ prv = None
    /\ vrf = None

RoundLengths ==
    /\ pc = "init"
    /\ result' = [tag |-> "Ok",
                  lengths |-> reconstruct_round_lengths(cfg.n, cfg.k, cfg.d),
                  helper |-> reconstruct_round_lengths_helper(cfg.n, cfg.k, cfg.d),
                  created |-> create_round_lengths(cfg.n, cfg.k, cfg.d),
                  m |-> ConfigStopLength(cfg.n, cfg.k, cfg.d)]
    /\ pc' = "lengths"
    /\ UNCHANGED <<prv, vrf, cfg, pt, vt, proof, wire, decoded>>

NextLengths == RoundLengths

SpecLengths == InitLengths /\ [][NextLengths]_vars

\* ------------------------------------------------------ R1CSProof byte encoding
\* the points in the order the prover commits them to the transcript
to_bytes_points_committed ==
    << "A_I", "A_O", "S", "T_1", "T_3", "T_4", "T_5", "T_6", "T_2",
       "S_prime", "T_1_prime", "S1_prime", "S2_prime" >>

\* the order in which to_bytes writes the points and the scalars
to_bytes_points ==
    << "A_I", "A_O", "S", "T_1", "T_2", "T_3", "T_4", "T_5", "T_6",
       "S_prime", "T_1_prime", "S1_prime", "S2_prime" >>
to_bytes_scalars ==
    << "t_x", "t_x_blinding", "e_blinding", "tc_x", "tc_x_blinding", "ec_blinding",
       "t_cross", "r_blinding" >>

R_to_bytes(P) ==
    LET ipp_proof_bytes == K_to_bytes(P.ipp_proof)
        ecp_batched_bytes == E_to_bytes(P.ecp_batched)
    IN  Concat(Vec([x \in 1..Len(to_bytes_points) |-> P[to_bytes_points[x]]]))
        \o Concat(Vec([x \in 1..Len(to_bytes_scalars) |-> ScalarBytes(P[to_bytes_scalars[x]])]))
        \o U64Bytes(Len(ipp_proof_bytes)) \o U64Bytes(Len(ecp_batched_bytes))
        \o ipp_proof_bytes \o ecp_batched_bytes

\* the 64-bit sum x + y of two little-endian u64: 8 bytes, then the carry out
RECURSIVE U64Add(_, _, _, _)
U64Add(x, y, i, carry) ==
    IF i > 8 THEN <<carry>>
    ELSE <<(x[i] + y[i] + carry) % 256>> \o U64Add(x, y, i + 1, (x[i] + y[i] + carry) \div 256)

\* R1CSProof::from_bytes.  The two declared lengths are u64 and their sum with the
\* offset is a usize sum: a build with overflow checks panics when it overflows, a
\* build without them compares the wrapped sum and, if that equals the length of
\* the input, panics on the slice whose end lies before its start or past the input
R_from_bytes(slice, checked) ==
    LET point_count == 13
        scalar_count == 8
        fixed_len == (point_count + scalar_count) * 32
        len_prefix_len == 2 * 8
    IN  IF Len(slice) < fixed_len + len_prefix_len THEN [tag |-> "FormatError"]
        ELSE IF \E i \in 0..(scalar_count - 1) :
                    ~IsCanonical(read32(slice, point_count * 32 + i * 32))
        THEN [tag |-> "FormatError"]
        ELSE LET offset == fixed_len + len_prefix_len
                 ipp_len_bytes == SubSeq(slice, fixed_len + 1, fixed_len + 8)
                 ecp_len_bytes == SubSeq(slice, fixed_len + 9, fixed_len + 16)
                 sum1 == U64Add(U64Bytes(offset), ipp_len_bytes, 1, 0)
                 sum2 == U64Add(SubSeq(sum1, 1, 8), ecp_len_bytes, 1, 0)
                 overflow == sum1[9] = 1 \/ sum2[9] = 1
                 total_expected_len == SubSeq(sum2, 1, 8)
             IN  IF overflow /\ checked THEN [tag |-> "Panic"]
                 ELSE IF U64Bytes(Len(slice)) # total_expected_len THEN [tag |-> "FormatError"]
                 ELSE IF overflow THEN [tag |-> "Panic"]
                 ELSE LET ipp_proof_len == U64At(slice, fixed_len)
                          ecp_batched_len == U64At(slice, fixed_len + 8)
                          ipp == K_from_bytes(SubSeq(slice, offset + 1, offset + ipp_proof_len),
                                              checked)
                          ecp == E_from_bytes(SubSeq(slice, offset + ipp_proof_len + 1,
                                                     offset + ipp_proof_len + ecp_batched_len))
                      IN  IF ipp.tag # "Ok" THEN ipp
                          ELSE IF ecp.tag # "Ok" THEN ecp
                          ELSE LET read_point(i) == read32(slice, i * 32)
                                   read_scalar(i) ==
                                       ScalarFromBytes(read32(slice, point_count * 32 + i * 32))
                               IN  [tag |-> "Ok",
                                    val |-> [A_I |-> read_point(0), A_O |-> read_point(1),
                                             S |-> read_point(2), T_1 |-> read_point(3),
                                             T_2 |-> read_point(4), T_3 |-> read_point(5),
                                             T_4 |-> read_point(6), T_5 |-> read_point(7),
                                             T_6 |-> read_point(8), S_prime |-> read_point(9),
                                             T_1_prime |-> read_point(10),
                                             S1_prime |-> read_point(11),
                                             S2_prime |-> read_point(12),
                                             t_x |-> read_scalar(0),
                                             t_x_blinding |-> read_scalar(1),
                                             e_blinding |-> read_scalar(2),
                                             tc_x |-> read_scalar(3),
                                             tc_x_blinding |-> read_scalar(4),
                                             ec_blinding |-> read_scalar(5),
                                             t_cross |-> read_scalar(6),
                                             r_blinding |-> read_scalar(7),
                                             ipp_proof |-> ipp.val,
                                             ecp_batched |-> ecp.val]]

\* ------------------------------------------------------- constraint systems
\* a variable is <<kind, index>>; a linear combination is a sequence of
\* <<variable, coefficient>>
One == <<"One", 0>>

\* Variable - Scalar
LcVarMinus(var, s) == << <<var, 1>>, <<One, SNeg(s)>> >>

\* LinearCombination * Scalar
LcScale(lc, s) == Vec([t \in 1..Len(lc) |-> <<lc[t][1], SMul(lc[t][2], s)>>])

constrain(cs, lc) == [cs EXCEPT !.constraints = Append(@, lc)]

\* ProverCS::eval
eval(cs, lc) ==
    inner_product(Vec([t \in 1..Len(lc) |-> lc[t][2]]),
                  Vec([t \in 1..Len(lc) |->
                          LET kind == lc[t][1][1]
                              i == lc[t][1][2] + 1
                          IN  IF kind = "MultiplierLeft" THEN cs.a_L[i]
                              ELSE IF kind = "MultiplierRight" THEN cs.a_R[i]
                              ELSE IF kind = "MultiplierOutput" THEN cs.a_O[i]
                              ELSE IF kind = "Committed" THEN cs.v[i]
                              ELSE 1]))

ProverCS_multiply(cs, left, right) ==
    LET l == eval(cs, left)
        r == eval(cs, right)
        o == SMul(l, r)
        l_var == <<"MultiplierLeft", Len(cs.a_L)>>
        r_var == <<"MultiplierRight", Len(cs.a_R)>>
        o_var == <<"MultiplierOutput", Len(cs.a_O)>>
        assigned == [cs EXCEPT !.a_L = Append(@, l), !.a_R = Append(@, r), !.a_O = Append(@, o)]
    IN  [cs |-> constrain(constrain(assigned, Append(left, <<l_var, SNeg(1)>>)),
                          Append(right, <<r_var, SNeg(1)>>)),
         vars |-> <<l_var, r_var, o_var>>]

VerifierCS_multiply(cs, left, right) ==
    LET var == cs.num_vars
        l_var == <<"MultiplierLeft", var>>
        r_var == <<"MultiplierRight", var>>
        o_var == <<"MultiplierOutput", var>>
        counted == [cs EXCEPT !.num_vars = @ + 1]
    IN  [cs |-> constrain(constrain(counted, Append(left, <<l_var, SNeg(1)>>)),
                          Append(right, <<r_var, SNeg(1)>>)),
         vars |-> <<l_var, r_var, o_var>>]

\* the sum over the constraints q = 1, 2, ... of z^q times the coefficient of var
FlatWeight(constraints, z, var) ==
    inner_product(
        Vec([q \in 1..Len(constraints) |-> scalar_pow(z, q)]),
        Vec([q \in 1..Len(constraints) |->
                inner_product(
                    Vec([t \in 1..Len(constraints[q]) |-> constraints[q][t][2]]),
                    Vec([t \in 1..Len(constraints[q]) |->
                            IF constraints[q][t][1] = var THEN 1 ELSE 0]))]))

\* a faulty variant: the weights of the committed variables are added
flattened_constraints_wV_added(cs, z) ==
    [wL |-> Vec([i \in 1..Len(cs.a_L) |-> FlatWeight(cs.constraints, z, <<"MultiplierLeft", i - 1>>)]),
     wR |-> Vec([i \in 1..Len(cs.a_L) |-> FlatWeight(cs.constraints, z, <<"MultiplierRight", i - 1>>)]),
     wO |-> Vec([i \in 1..Len(cs.a_L) |-> FlatWeight(cs.constraints, z, <<"MultiplierOutput", i - 1>>)]),
     wV |-> Vec([i \in 1..Len(cs.v) |-> FlatWeight(cs.constraints, z, <<"Committed", i - 1>>)])]

ProverCS_flattened_constraints(cs, z) ==
    [wL |-> Vec([i \in 1..Len(cs.a_L) |-> FlatWeight(cs.constraints, z, <<"MultiplierLeft", i - 1>>)]),
     wR |-> Vec([i \in 1..Len(cs.a_L) |-> FlatWeight(cs.constraints, z, <<"MultiplierRight", i - 1>>)]),
     wO |-> Vec([i \in 1..Len(cs.a_L) |-> FlatWeight(cs.constraints, z, <<"MultiplierOutput", i - 1>>)]),
     wV |-> Vec([i \in 1..Len(cs.v) |-> SNeg(FlatWeight(cs.constraints, z, <<"Committed", i - 1>>))])]

VerifierCS_flattened_constraints(cs, z) ==
    [wL |-> Vec([i \in 1..cs.num_vars |-> FlatWeight(cs.constraints, z, <<"MultiplierLeft", i - 1>>)]),
     wR |-> Vec([i \in 1..cs.num_vars |-> FlatWeight(cs.constraints, z, <<"MultiplierRight", i - 1>>)]),
     wO |-> Vec([i \in 1..cs.num_vars |-> FlatWeight(cs.constraints, z, <<"MultiplierOutput", i - 1>>)]),
     wV |-> Vec([i \in 1..cs.num_inputs |-> SNeg(FlatWeight(cs.constraints, z, <<"Committed", i - 1>>))]),
     wc |-> SNeg(FlatWeight(cs.constraints, z, One))]

\* --------------------------------------------------------- the shuffle gadget
\* a faulty variant: the padding slots are not constrained to zero
RECURSIVE fill_cs_loop_unconstrained(_, _, _, _, _, _)
fill_cs_loop_unconstrained(cs, prev_lc, x, z, k_original, i) ==
    IF i >= Len(x) THEN [cs |-> cs, prev_lc |-> prev_lc]
    ELSE IF i >= k_original
    THEN fill_cs_loop_unconstrained(cs, LcScale(prev_lc, SNeg(z)), x, z, k_original, i + 1)
    ELSE LET mul == IF cs.side = "prover"
                    THEN ProverCS_multiply(cs, prev_lc, LcVarMinus(x[i + 1], z))
                    ELSE VerifierCS_multiply(cs, prev_lc, LcVarMinus(x[i + 1], z))
         IN  fill_cs_loop_unconstrained(mul.cs, << <<mul.vars[3], 1>> >>, x, z, k_original, i + 1)

\* the loop of fill_cs over i = 1 .. k-1 (x[i] of the code is x[i + 1] here)
RECURSIVE fill_cs_loop(_, _, _, _, _, _)
fill_cs_loop(cs, prev_lc, x, z, k_original, i) ==
    IF i >= Len(x) THEN [cs |-> cs, prev_lc |-> prev_lc]
    ELSE IF i >= k_original
    THEN fill_cs_loop(constrain(cs, LcVarMinus(x[i + 1], 0)), LcScale(prev_lc, SNeg(z)),
                      x, z, k_original, i + 1)
    ELSE LET mul == IF cs.side = "prover"
                    THEN ProverCS_multiply(cs, prev_lc, LcVarMinus(x[i + 1], z))
                    ELSE VerifierCS_multiply(cs, prev_lc, LcVarMinus(x[i + 1], z))
         IN  fill_cs_loop(mul.cs, << <<mul.vars[3], 1>> >>, x, z, k_original, i + 1)

\* the product of the y_i - z over i = lo .. hi
RECURSIVE shuffle_product(_, _, _, _)
shuffle_product(y, z, lo, hi) ==
    IF lo > hi THEN 1
    ELSE IF lo = hi THEN SSub(y[lo], z)
    ELSE LET mid == (lo + hi) \div 2
         IN  SMul(shuffle_product(y, z, lo, mid), shuffle_product(y, z, mid + 1, hi))

\* KShuffleGadget::fill_cs, called with x and y of the same length k >= 1
fill_cs(cs0, x, y, k_original) ==
    LET z == ChallengeValue(cs0.transcript, "k-scalar shuffle challenge")
        cs == [cs0 EXCEPT !.transcript = ChallengeState(@, "k-scalar shuffle challenge")]
        prod_y == shuffle_product(y, z, 1, Len(y))
        first == IF 0 >= k_original
                 THEN [cs |-> constrain(cs, LcVarMinus(x[1], 0)),
                       prev_lc |-> << <<One, SNeg(z)>> >>]
                 ELSE [cs |-> cs, prev_lc |-> LcVarMinus(x[1], z)]
        done == fill_cs_loop(first.cs, first.prev_lc, x, z, k_original, 1)
    IN  constrain(done.cs, Append(done.prev_lc, <<One, SNeg(prod_y)>>))

\* ------------------------------------------------------------ the R1CS prover
R1csName == <<4>>
ShuffleName == <<5>>

r1cs_domain_sep(T) == append_message(T, "dom-sep", R1csName)
commit_scalar(T, label, s) == append_message(T, label, ScalarBytes(s))

\* the i-th value drawn from the random number generator seeded with seed
Rng(seed, i) == (3 * seed + i * i + (i \div 2) + 1) % Order

\* PedersenGens::commit
Commit(value, blinding) == PAdd(PMul(value, B), PMul(blinding, B_blinding))

\* the value at x of the polynomial with the coefficients coeffs[1] + coeffs[2] x + ...
PolyEval(coeffs, x) == inner_product(coeffs, exp_iter(x, Len(coeffs)))

Prover_new(gens_capacity, T) ==
    [m |-> 0,
     cs |-> [side |-> "prover", gens_capacity |-> gens_capacity,
             transcript |-> r1cs_domain_sep(T),
             v |-> <<>>, v_blinding |-> 0, constraints |-> <<>>,
             a_L |-> <<>>, a_R |-> <<>>, a_O |-> <<>>]]

\* Prover::commit_vec, called with k_original <= v.len()
Prover_commit_vec(prover, v, v_blinding, k_original) ==
    LET start_index == prover.m
        n_padded == Len(v)
        V == compress(multiscalar_mul(<<v_blinding>> \o v, <<B_blinding>> \o GensG(n_padded)))
    IN  [prover |-> [m |-> prover.m + n_padded,
                     cs |-> [prover.cs EXCEPT !.v = @ \o v,
                                              !.v_blinding = v_blinding,
                                              !.transcript = commit_point(@, "V", V)]],
         V |-> V,
         vars |-> Vec([i \in 1..n_padded |-> <<"Committed", start_index + i - 1>>])]

Prover_finalize_inputs(prover) ==
    [prover.cs EXCEPT !.transcript = append_message(@, "m", U64Bytes(prover.m))]

\* ProverCS::prove.  The values are computed in steps: each step takes the record e
\* of the values computed before it and returns e with its own values added
ProverCS_prove(cs, C1_prime, C2_prime, r_prime, k_fold, num_rounds, seed) ==
    LET n == Len(cs.a_L)
        k == Len(cs.v)
        k_original == Len(C1_prime)
        \* the scalars drawn from the random number generator, in the order of the draws
        i_blinding == Rng(seed, 1)
        o_blinding == Rng(seed, 2)
        s_blinding == Rng(seed, 3)
        s_L == Vec([i \in 1..n |-> Rng(seed, 2 + 2 * i)])
        s_R == Vec([i \in 1..n |-> Rng(seed, 3 + 2 * i)])
        drawn == 3 + 2 * n
        t_blindings == Vec([i \in 1..5 |-> Rng(seed, drawn + i)])
        t_2_blinding == Rng(seed, drawn + 6)
        s_bl_prime == Rng(seed, drawn + 7)
        rnd == Rng(seed, drawn + 8)
        s_L_random == Vec([i \in 1..k_original |-> Rng(seed, drawn + 8 + i)])
        s_L_prime == PadScalars(s_L_random, k - k_original)
        t1_bl_prime == Rng(seed, drawn + 8 + k_original + 1)
        l2 == cs.a_O
        l3 == s_L
        \* 2. the commitments to the circuit
        circuit_commitments(e) ==
            e @@ [A_I |-> compress(multiscalar_mul(<<i_blinding>> \o cs.a_L \o cs.a_R,
                                                   <<B_blinding>> \o GensG(n) \o GensH(n))),
                  A_O |-> compress(multiscalar_mul(<<o_blinding>> \o cs.a_O,
                                                   <<B_blinding>> \o GensG(n))),
                  S |-> compress(multiscalar_mul(<<s_blinding>> \o s_L \o s_R,
                                                 <<B_blinding>> \o GensG(n) \o GensH(n)))]
        commit_circuit(e) ==
            [e EXCEPT !.transcript =
                 commit_point(commit_point(commit_point(
                 @, "A_I", e.A_I), "A_O", e.A_O), "S", e.S)]
        challenge_y(e) ==
            [e EXCEPT !.transcript = ChallengeState(@, "y")]
            @@ [y |-> ChallengeValue(e.transcript, "y")]
        challenge_z(e) ==
            [e EXCEPT !.transcript = ChallengeState(@, "z")]
            @@ [z |-> ChallengeValue(e.transcript, "z")]
        flatten(e) ==
            e @@ [w |-> ProverCS_flattened_constraints(cs, e.z),
                  exp_y_inv |-> exp_iter(SInv(e.y), k),
                  exp_y |-> exp_iter(e.y, k)]
        \* 3. the polynomials l(x), r(x) and t(x)
        l_r_poly(e) ==
            e @@ [l1 |-> Vec([i \in 1..n |-> SAdd(cs.a_L[i], SMul(e.exp_y_inv[i], e.w.wR[i]))]),
                  r0 |-> Vec([i \in 1..n |-> SSub(e.w.wO[i], e.exp_y[i])]),
                  r1 |-> Vec([i \in 1..n |-> SAdd(SMul(e.exp_y[i], cs.a_R[i]), e.w.wL[i])]),
                  r3 |-> Vec([i \in 1..n |-> SMul(e.exp_y[i], s_R[i])])]
        \* VecPoly3::special_inner_product
        t_poly(e) ==
            e @@ [t1 |-> inner_product(e.l1, e.r0),
                  t2 |-> SAdd(inner_product(e.l1, e.r1), inner_product(l2, e.r0)),
                  t3 |-> SAdd(inner_product(l2, e.r1), inner_product(l3, e.r0)),
                  t4 |-> SAdd(inner_product(e.l1, e.r3), inner_product(l3, e.r1)),
                  t5 |-> inner_product(l2, e.r3),
                  t6 |-> inner_product(l3, e.r3),
                  t_2 |-> inner_product(e.w.wV, cs.v)]
        t_commitments(e) ==
            e @@ [T_1 |-> compress(Commit(e.t1, t_blindings[1])),
                  T_3 |-> compress(Commit(e.t3, t_blindings[2])),
                  T_4 |-> compress(Commit(e.t4, t_blindings[3])),
                  T_5 |-> compress(Commit(e.t5, t_blindings[4])),
                  T_6 |-> compress(Commit(e.t6, t_blindings[5])),
                  T_2 |-> compress(Commit(e.t_2, t_2_blinding))]
        commit_t(e) ==
            [e EXCEPT !.transcript =
                 commit_point(commit_point(commit_point(commit_point(commit_point(
                 commit_point(@, "T_1", e.T_1), "T_3", e.T_3),
                 "T_4", e.T_4), "T_5", e.T_5), "T_6", e.T_6), "T_2", e.T_2)]
        challenge_x(e) ==
            [e EXCEPT !.transcript = ChallengeState(@, "x")]
            @@ [x |-> ChallengeValue(e.transcript, "x")]
        \* 4. the evaluations at x; l_vec and r_vec are resized to k, the tail of
        \* r_vec is -y^i
        evaluations(e) ==
            e @@ [t_x |-> PolyEval(<<0, e.t1, e.t2, e.t3, e.t4, e.t5, e.t6>>, e.x),
                  t_x_blinding |-> PolyEval(<<0, t_blindings[1], t_2_blinding, t_blindings[2],
                                             t_blindings[3], t_blindings[4], t_blindings[5]>>, e.x),
                  l_vec |-> Vec([i \in 1..k |->
                                   IF i <= n THEN PolyEval(<<0, e.l1[i], l2[i], l3[i]>>, e.x) ELSE 0]),
                  r_vec |-> Vec([i \in 1..k |->
                                   IF i <= n THEN PolyEval(<<e.r0[i], e.r1[i], 0, e.r3[i]>>, e.x)
                                   ELSE SNeg(e.exp_y[i])]),
                  e_blinding |-> SMul(e.x, SAdd(i_blinding,
                                                SMul(e.x, SAdd(o_blinding, SMul(e.x, s_blinding)))))]
        commit_evaluations(e) ==
            [e EXCEPT !.transcript =
                 commit_scalar(commit_scalar(commit_scalar(
                 @, "t_x", e.t_x), "t_x_blinding", e.t_x_blinding),
                 "e_blinding", e.e_blinding)]
        \* 5. the consistency commitments; lc_poly = (v, s_L_prime), rc_poly = (wV, 0),
        \* tc_poly is their VecPoly1::inner_product
        consistency_poly(e) ==
            e @@ [tc0 |-> inner_product(cs.v, e.w.wV),
                  tc2 |-> inner_product(s_L_prime, Zeros(k)),
                  tc_sum |-> inner_product(Vec([i \in 1..k |-> SAdd(cs.v[i], s_L_prime[i])]),
                                           e.w.wV)]
        consistency_commitments(e) ==
            e @@ [S_prime |-> compress(multiscalar_mul(<<s_bl_prime>> \o s_L_random,
                                                       <<B_blinding>> \o GensG(k_original))),
                  S1_prime |-> compress(multiscalar_mul(<<rnd>> \o s_L_random, <<B>> \o C1_prime)),
                  S2_prime |-> compress(multiscalar_mul(<<rnd>> \o s_L_random,
                                                        <<B_blinding>> \o C2_prime)),
                  tc1 |-> SSub(SSub(e.tc_sum, e.tc0), e.tc2),
                  T_1_prime |-> compress(Commit(SSub(SSub(e.tc_sum, e.tc0), e.tc2), t1_bl_prime))]
        commit_consistency(e) ==
            [e EXCEPT !.transcript =
                 commit_point(commit_point(commit_point(commit_point(
                 @, "S_prime", e.S_prime), "T_1_prime", e.T_1_prime),
                 "S1_prime", e.S1_prime), "S2_prime", e.S2_prime)]
        challenge_x_prime(e) ==
            [e EXCEPT !.transcript = ChallengeState(@, "x_prime")]
            @@ [x_prime |-> ChallengeValue(e.transcript, "x_prime")]
        consistency_evaluations(e) ==
            e @@ [tc_x |-> PolyEval(<<e.tc0, e.tc1, e.tc2>>, e.x_prime),
                  tc_x_blinding |-> PolyEval(<<t_2_blinding, t1_bl_prime, 0>>, e.x_prime),
                  ec_blinding |-> SAdd(cs.v_blinding, SMul(s_bl_prime, e.x_prime)),
                  r_blinding |-> SAdd(r_prime, SMul(rnd, e.x_prime)),
                  lc_vec |-> Vec([i \in 1..k |-> SAdd(cs.v[i], SMul(s_L_prime[i], e.x_prime))]),
                  rc_vec |-> e.w.wV]
        cross_term(e) ==
            e @@ [t_cross |-> SAdd(inner_product(e.l_vec, e.rc_vec),
                                   inner_product(e.lc_vec, e.r_vec))]
        commit_consistency_evaluations(e) ==
            [e EXCEPT !.transcript =
                 commit_scalar(commit_scalar(commit_scalar(commit_scalar(
                 commit_scalar(@, "tc_x", e.tc_x),
                 "tc_x_blinding", e.tc_x_blinding), "ec_blinding", e.ec_blinding),
                 "r_blinding", e.r_blinding), "t_cross", e.t_cross)]
        \* 6. the aggregated inner-product argument
        challenge_x_ipp(e) ==
            [e EXCEPT !.transcript = ChallengeState(@, "x_ipp")]
            @@ [x_ipp |-> ChallengeValue(e.transcript, "x_ipp")]
        challenge_w_agg(e) ==
            [e EXCEPT !.transcript = ChallengeState(@, "w_agg")]
            @@ [w_agg |-> ChallengeValue(e.transcript, "w_agg")]
        aggregate(e) ==
            e @@ [l_agg |-> Vec([i \in 1..k |-> SAdd(e.l_vec[i], SMul(e.x_ipp, e.lc_vec[i]))]),
                  r_agg |-> Vec([i \in 1..k |-> SAdd(e.r_vec[i], SMul(e.x_ipp, e.rc_vec[i]))]),
                  Q_agg |-> PMul(e.w_agg, B),
                  H_prime |-> Vec([i \in 1..k |-> PMul(e.exp_y_inv[i], GensH(k)[i])])]
        circuit_argument(e) ==
            e @@ [ipp_run |-> KCreateRun(e.transcript, k_fold, GensG(k), e.H_prime, e.Q_agg,
                                         e.l_agg, e.r_agg, num_rounds)]
        \* 7. the batched consistency argument
        challenge_batched_ecp(e) ==
            [e EXCEPT !.transcript = ChallengeState(e.ipp_run.T, "chall_batched_ecp")]
            @@ [chall_batched_ecp |-> ChallengeValue(e.ipp_run.T, "chall_batched_ecp")]
        aggregate_ciphertexts(e) ==
            e @@ [C_agg |-> Vec([i \in 1..Min(Len(C1_prime), Len(C2_prime)) |->
                                    PAdd(C1_prime[i], PMul(e.chall_batched_ecp, C2_prime[i]))])]
        consistency_argument(e) ==
            e @@ [ecp_run |-> ECreateRun(e.transcript, k_fold, GensG(k), e.C_agg, e.lc_vec,
                                         num_rounds)]
        \* 8. the cleanup: every element of s_L and of s_R is cleared; the other
        \* buffers of the call hold at the return what was last written to them
        locals_at_return(e) ==
            [s_L |-> Zeros(n), s_R |-> Zeros(n), s_L_prime |-> s_L_prime,
             i_blinding |-> i_blinding, o_blinding |-> o_blinding,
             s_blinding |-> s_blinding, t_blindings |-> t_blindings,
             t_2_blinding |-> t_2_blinding, s_bl_prime |-> s_bl_prime, rnd |-> rnd,
             t1_bl_prime |-> t1_bl_prime,
             l_poly |-> <<Zeros(n), e.l1, l2, l3>>,
             r_poly |-> <<e.r0, e.r1, Zeros(n), e.r3>>,
             l_vec |-> e.l_vec, r_vec |-> e.r_vec, lc_vec |-> e.lc_vec,
             l_agg |-> e.l_agg, r_agg |-> e.r_agg]
        proof_of(e) ==
            [tag |-> "Ok",
             transcript |-> e.ecp_run.T,
             proof |-> [A_I |-> e.A_I, A_O |-> e.A_O, S |-> e.S,
                        T_1 |-> e.T_1, T_2 |-> e.T_2, T_3 |-> e.T_3, T_4 |-> e.T_4,
                        T_5 |-> e.T_5, T_6 |-> e.T_6,
                        t_x |-> e.t_x, t_x_blinding |-> e.t_x_blinding,
                        e_blinding |-> e.e_blinding,
                        ipp_proof |-> KProofOf(k_fold, e.ipp_run),
                        S_prime |-> e.S_prime, T_1_prime |-> e.T_1_prime,
                        tc_x |-> e.tc_x, tc_x_blinding |-> e.tc_x_blinding,
                        ec_blinding |-> e.ec_blinding, t_cross |-> e.t_cross,
                        S1_prime |-> e.S1_prime, S2_prime |-> e.S2_prime,
                        r_blinding |-> e.r_blinding,
                        ecp_batched |-> EProofOf(k_fold, e.ecp_run)],
             locals |-> locals_at_return(e)]
    IN  IF cs.gens_capacity < k
        THEN [tag |-> "InvalidGeneratorsLength", transcript |-> cs.transcript]
        ELSE IF n > k THEN [tag |-> "Panic", transcript |-> cs.transcript]
        ELSE proof_of(consistency_argument(aggregate_ciphertexts(challenge_batched_ecp(
             circuit_argument(aggregate(challenge_w_agg(challenge_x_ipp(
             commit_consistency_evaluations(cross_term(consistency_evaluations(
             challenge_x_prime(commit_consistency(consistency_commitments(consistency_poly(
             commit_evaluations(evaluations(challenge_x(commit_t(t_commitments(t_poly(
             l_r_poly(flatten(challenge_z(challenge_y(commit_circuit(circuit_commitments(
             [transcript |-> cs.transcript])))))))))))))))))))))))))))

\* ---------------------------------------------------------- the R1CS verifier
Verifier_new(gens_capacity, T) ==
    [m |-> 0,
     cs |-> [side |-> "verifier", gens_capacity |-> gens_capacity,
             transcript |-> r1cs_domain_sep(T),
             num_vars |-> 0, V |-> <<>>, constraints |-> <<>>, num_inputs |-> 0]]

\* a faulty variant: the handles are counted from 0 in every call
Verifier_commit_vec_from_zero(verifier, commitment, n) ==
    [verifier |-> [m |-> verifier.m + n,
                   cs |-> [verifier.cs EXCEPT !.num_inputs = verifier.m + n,
                                              !.V = Append(@, commitment),
                                              !.transcript = commit_point(@, "V", commitment)]],
     vars |-> Vec([i \in 1..n |-> <<"Committed", i - 1>>])]

Verifier_commit_vec(verifier, commitment, n) ==
    LET start_index == verifier.m
    IN  [verifier |-> [m |-> verifier.m + n,
                       cs |-> [verifier.cs EXCEPT !.num_inputs = verifier.m + n,
                                                  !.V = Append(@, commitment),
                                                  !.transcript = commit_point(@, "V", commitment)]],
         vars |-> Vec([i \in 1..n |-> <<"Committed", start_index + i - 1>>])]

\* a faulty variant: the number of committed variables is not absorbed
finalize_inputs_no_suffix(verifier) == verifier.cs

Verifier_finalize_inputs(verifier) ==
    [verifier.cs EXCEPT !.transcript = append_message(@, "m", U64Bytes(verifier.m))]

\* VerifierCS::verify; r is the scalar drawn from the random number generator and
\* checked tells whether the build checks integer overflow: padded_n - n is a usize
\* subtraction, which panics in a checked build and wraps otherwise; the wrapped pad
\* is the length of the zeros collected into yneg_wR (capacity overflow).  As in
\* prove, each step adds its values to the record e of the values before it
VerifierCS_verify(cs, proof_, C1_prime, C2_prime, C, r, checked) ==
    LET n == cs.num_vars
        padded_n == cs.num_inputs
        pad == padded_n - n
        k_fold == proof_.ipp_proof.k
        k_original == Len(C1_prime)
        t_cross == proof_.t_cross
        r2 == SMul(r, r)
        r3 == SMul(SMul(r, r), r)
        r4 == SMul(SMul(SMul(r, r), r), r)
        U == RoundPoints(proof_.ipp_proof.U_vecs, k_fold)
        A == Concat(proof_.ecp_batched.A_vecs)
        T_points == << proof_.T_1, proof_.T_2, proof_.T_3, proof_.T_4, proof_.T_5, proof_.T_6 >>
        \* 2. the replay of the transcript
        commit_circuit(e) ==
            [e EXCEPT !.transcript =
                 commit_point(commit_point(commit_point(
                 @, "A_I", proof_.A_I), "A_O", proof_.A_O),
                 "S", proof_.S)]
        challenge_y(e) ==
            [e EXCEPT !.transcript = ChallengeState(@, "y")]
            @@ [y |-> ChallengeValue(e.transcript, "y")]
        challenge_z(e) ==
            [e EXCEPT !.transcript = ChallengeState(@, "z")]
            @@ [z |-> ChallengeValue(e.transcript, "z")]
        commit_t(e) ==
            [e EXCEPT !.transcript =
                 commit_point(commit_point(commit_point(commit_point(commit_point(
                 commit_point(@, "T_1", proof_.T_1), "T_3", proof_.T_3),
                 "T_4", proof_.T_4), "T_5", proof_.T_5), "T_6", proof_.T_6),
                 "T_2", proof_.T_2)]
        challenge_x(e) ==
            [e EXCEPT !.transcript = ChallengeState(@, "x")]
            @@ [x |-> ChallengeValue(e.transcript, "x")]
        commit_evaluations(e) ==
            [e EXCEPT !.transcript =
                 commit_scalar(commit_scalar(commit_scalar(
                 @, "t_x", proof_.t_x),
                 "t_x_blinding", proof_.t_x_blinding),
                 "e_blinding", proof_.e_blinding)]
            @@ [w |-> VerifierCS_flattened_constraints(cs, e.z)]
        commit_consistency(e) ==
            [e EXCEPT !.transcript =
                 commit_point(commit_point(commit_point(commit_point(
                 @, "S_prime", proof_.S_prime),
                 "T_1_prime", proof_.T_1_prime), "S1_prime", proof_.S1_prime),
                 "S2_prime", proof_.S2_prime)]
        challenge_x_prime(e) ==
            [e EXCEPT !.transcript = ChallengeState(@, "x_prime")]
            @@ [x_prime |-> ChallengeValue(e.transcript, "x_prime")]
        commit_consistency_evaluations(e) ==
            [e EXCEPT !.transcript =
                 commit_scalar(commit_scalar(commit_scalar(commit_scalar(
                 commit_scalar(@, "tc_x", proof_.tc_x),
                 "tc_x_blinding", proof_.tc_x_blinding),
                 "ec_blinding", proof_.ec_blinding),
                 "r_blinding", proof_.r_blinding), "t_cross", proof_.t_cross)]
        challenge_x_ipp(e) ==
            [e EXCEPT !.transcript = ChallengeState(@, "x_ipp")]
            @@ [x_ipp |-> ChallengeValue(e.transcript, "x_ipp")]
        challenge_w_agg(e) ==
            [e EXCEPT !.transcript = ChallengeState(@, "w_agg")]
            @@ [w_agg |-> ChallengeValue(e.transcript, "w_agg")]
        \* 3. the scalars of the aggregated inner-product argument
        circuit_scalars(e) ==
            e @@ [cir |-> K_verification_scalars(proof_.ipp_proof, padded_n, e.transcript)]
        weights(e) ==
            e @@ [s_P_cir |-> e.cir.s_P,
                  y_inv_vec |-> exp_iter(SInv(e.y), padded_n),
                  xx |-> SMul(e.x, e.x),
                  wL_pad |-> e.w.wL \o Zeros(pad),
                  wO_pad |-> e.w.wO \o Zeros(pad),
                  rC |-> e.w.wV,
                  expected_ip |-> SAdd(SAdd(proof_.t_x, SMul(e.x_ipp, t_cross)),
                                       SMul(SMul(e.x_ipp, e.x_ipp), proof_.tc_x))]
        weights_wR(e) ==
            e @@ [yneg_wR |-> Vec([i \in 1..Min(n, padded_n) |-> SMul(e.w.wR[i], e.y_inv_vec[i])])
                              \o Zeros(pad),
                  rxx |-> SMul(r, e.xx),
                  xxx |-> SMul(e.x, e.xx)]
        circuit_terms(e) ==
            e @@ [delta |-> inner_product(SubSeq(e.yneg_wR, 1, n), e.w.wL),
                  g_scalars |->
                      Vec([i \in 1..Min(Len(e.cir.s_g), Len(e.yneg_wR)) |->
                              SSub(e.cir.s_g[i], SMul(SMul(e.x, e.yneg_wR[i]), e.s_P_cir))]),
                  h_scalars |->
                      Vec([i \in 1..Min(Min(Len(e.cir.s_h), padded_n), Min(n + pad, Len(e.rC))) |->
                              SAdd(SAdd(
                                  \* term1, term2, term3
                                  SMul(e.y_inv_vec[i], e.cir.s_h[i]),
                                  SMul(SSub(SMul(e.y_inv_vec[i],
                                                 SAdd(SMul(e.x, e.wL_pad[i]), e.wO_pad[i])), 1),
                                       SNeg(e.s_P_cir))),
                                  SMul(SMul(SMul(e.y_inv_vec[i], e.x_ipp), SNeg(e.s_P_cir)),
                                       e.rC[i]))]),
                  T_scalars |-> << SMul(r, e.x), SMul(r, e.xx), SMul(e.rxx, e.x), SMul(e.rxx, e.xx),
                                   SMul(e.rxx, e.xxx), SMul(SMul(e.rxx, e.xx), e.xx) >>,
                  B_blinding_scalar |->
                      SSub(SSub(SAdd(SMul(SMul(e.x_ipp, proof_.ec_blinding), e.s_P_cir),
                                     SMul(proof_.e_blinding, e.s_P_cir)),
                                SMul(r2, proof_.tc_x_blinding)),
                           SMul(r, proof_.t_x_blinding))]
        basepoint_term(e) ==
            e @@ [B_scalar |->
                      SSub(SAdd(SSub(SMul(e.w_agg, e.cir.s_Q_final),
                                     SMul(SMul(e.w_agg, e.expected_ip), e.s_P_cir)),
                                SMul(r, SSub(SMul(e.xx, SAdd(e.w.wc, e.delta)), proof_.t_x))),
                           SMul(r2, proof_.tc_x))]
        \* 4. the scalars of the batched consistency argument
        challenge_batched_ecp(e) ==
            [e EXCEPT !.transcript = ChallengeState(e.cir.T, "chall_batched_ecp")]
            @@ [chall_batched_ecp |-> ChallengeValue(e.cir.T, "chall_batched_ecp")]
        consistency_scalars(e) ==
            e @@ [ecp |-> E_verification_scalars(proof_.ecp_batched, padded_n, e.transcript)]
        final_scalars(e) ==
            e @@ [s_P |-> e.ecp.s_P,
                  z_s_vec |-> e.ecp.z_s_vec,
                  s_A_vec |-> e.ecp.s_A_vec,
                  s_V_checkS |-> SMul(r4, SNeg(e.ecp.s_P)),
                  s_S_prime_checkS |-> SMul(SMul(r4, e.x_prime), SNeg(e.ecp.s_P)),
                  s_S1_prime |-> SMul(SMul(r3, e.x_prime), SNeg(e.ecp.s_P)),
                  s_S2_prime |-> SMul(SMul(SMul(r3, e.chall_batched_ecp), e.x_prime),
                                      SNeg(e.ecp.s_P)),
                  s_B_checkS |-> SMul(SMul(e.ecp.s_P, r3), proof_.r_blinding),
                  s_C0 |-> SMul(r3, SNeg(e.ecp.s_P)),
                  s_C1 |-> SMul(SMul(r3, e.chall_batched_ecp), SNeg(e.ecp.s_P)),
                  s_B_blinding_checkS |->
                      SMul(e.ecp.s_P, SAdd(SMul(r4, proof_.ec_blinding),
                                           SMul(SMul(r3, e.chall_batched_ecp), proof_.r_blinding))),
                  final_g_scalars |->
                      Vec([i \in 1..Min(Len(e.g_scalars), Len(e.ecp.z_s_vec)) |->
                              SAdd(e.g_scalars[i], SMul(e.ecp.z_s_vec[i], r4))])]
        \* 5. the aggregated check
        combined(e) ==
            e @@ [combined_scalars |->
                      << SMul(SNeg(e.x), e.s_P_cir),
                         SMul(SMul(SNeg(e.x), e.x), e.s_P_cir),
                         SMul(SMul(SMul(SNeg(e.x), e.x), e.x), e.s_P_cir),
                         \* final_scalar_V, final_scalar_S_prime, final_scalar_B,
                         \* final_scalar_B_blinding
                         SAdd(SMul(SNeg(e.x_ipp), e.s_P_cir), e.s_V_checkS),
                         SAdd(SMul(SMul(SNeg(e.x_ipp), e.s_P_cir), e.x_prime), e.s_S_prime_checkS),
                         SAdd(e.B_scalar, e.s_B_checkS),
                         SAdd(e.B_blinding_scalar, e.s_B_blinding_checkS) >>
                      \o e.final_g_scalars \o e.h_scalars \o NegAll(e.cir.s_U)
                      \o <<SMul(r2, e.x_prime), r2>> \o e.T_scalars
                      \o <<e.s_S1_prime, e.s_S2_prime, e.s_C0, e.s_C1>>
                      \o Vec([i \in 1..k_original |-> SMul(e.z_s_vec[i], r3)])
                      \o Vec([i \in 1..k_original |->
                                 SMul(SMul(e.z_s_vec[i], r3), e.chall_batched_ecp)])
                      \o Vec([i \in 1..Len(e.s_A_vec) |-> SMul(SNeg(e.s_A_vec[i]), r4)])
                      \o Vec([i \in 1..Len(e.s_A_vec) |-> SMul(SNeg(e.s_A_vec[i]), r3)]),
                  combined_points |->
                      << decompress(proof_.A_I), decompress(proof_.A_O),
                         decompress(proof_.S), decompress(cs.V[1]),
                         decompress(proof_.S_prime), B, B_blinding >>
                      \o GensG(padded_n) \o GensH(padded_n)
                      \o Vec([i \in 1..Len(U) |-> decompress(U[i])])
                      \o << decompress(proof_.T_1_prime), decompress(proof_.T_2) >>
                      \o Vec([i \in 1..6 |-> decompress(T_points[i])])
                      \o << decompress(proof_.S1_prime), decompress(proof_.S2_prime), C[1], C[2] >>
                      \o C1_prime \o C2_prime
                      \o Vec([i \in 1..Len(A) |-> decompress(A[i][1])])
                      \o Vec([i \in 1..Len(A) |-> decompress(A[i][2])])]
        mega_check(e) ==
            [tag |-> IF IsIdentity(multiscalar_mul(e.combined_scalars, e.combined_points))
                     THEN "Ok" ELSE "VerificationError",
             transcript |-> e.ecp.T]
        compressed_points ==
            << proof_.A_I, proof_.A_O, proof_.S >>
            \o (IF Len(cs.V) = 0 THEN <<>> ELSE <<cs.V[1]>>)
            \o << proof_.S_prime, proof_.T_1_prime, proof_.T_2 >> \o T_points
            \o << proof_.S1_prime, proof_.S2_prime >>
            \o Vec([i \in 1..Len(A) |-> A[i][1]])
            \o Vec([i \in 1..Len(A) |-> A[i][2]])
        check_consistency(e) ==
            IF e.ecp.tag # "Ok" THEN [tag |-> "VerificationError", transcript |-> e.ecp.T]
            ELSE IF k_original > Len(e.ecp.z_s_vec) THEN [tag |-> "Panic", transcript |-> e.ecp.T]
            ELSE IF Len(cs.V) = 0
                    \/ \E i \in 1..Len(compressed_points) : ~CanDecompress(compressed_points[i])
            THEN [tag |-> "VerificationError", transcript |-> e.ecp.T]
            ELSE mega_check(combined(final_scalars(e)))
        check_circuit(e) ==
            IF e.cir.tag # "Ok" THEN [tag |-> "VerificationError", transcript |-> e.cir.T]
            ELSE IF \E i \in 1..Len(U) : ~CanDecompress(U[i])
            THEN [tag |-> "VerificationError", transcript |-> e.cir.T]
            ELSE IF padded_n < n THEN [tag |-> "Panic", transcript |-> e.cir.T]
            ELSE check_consistency(consistency_scalars(challenge_batched_ecp(
                 basepoint_term(circuit_terms(weights_wR(weights(e)))))))
    IN  IF padded_n < n /\ checked THEN [tag |-> "Panic", transcript |-> cs.transcript]
        ELSE IF cs.gens_capacity < padded_n
        THEN [tag |-> "InvalidGeneratorsLength", transcript |-> cs.transcript]
        ELSE check_circuit(circuit_scalars(challenge_w_agg(challenge_x_ipp(
             commit_consistency_evaluations(challenge_x_prime(commit_consistency(
             commit_evaluations(challenge_x(commit_t(challenge_z(challenge_y(commit_circuit(
             [transcript |-> cs.transcript])))))))))))))

\* benches/quick.rs: calculate_proof_size and its reconstruct_rest
RECURSIVE reconstruct_rest(_, _, _)
reconstruct_rest(n, k, d) ==
    IF d = 0 THEN n
    ELSE LET rem == n % k
             pad == IF rem = 0 THEN 0 ELSE k - rem
         IN  reconstruct_rest((n + pad) \div k, k, d - 1)

calculate_proof_size(n_padded, k, d) ==
    LET rest == reconstruct_rest(n_padded, k, d)
        r1cs_overhead == (13 + 8) * 32 + 16
        ipp_points == IF d > 0 THEN d * (2 * k - 2) ELSE 0
        ipp_size == (3 + ipp_points + 2 * rest) * 32
        ecp_points == IF d > 0 THEN d * (2 * k - 2) * 2 ELSE 0
        ecp_size == (3 + ecp_points + rest) * 32
    IN  r1cs_overhead + ipp_size + ecp_size

\* ------------------------------------------------------------ the shuffle runs
GensC2(n) == Vec([i \in 1..n |-> Unit(IdxC2(i))])

\* KShuffleGadget::prove; v_blinding is the blinding drawn by the gadget
KShuffleGadget_prove(T, input, output, C1_prime, C2_prime, r_prime, k_fold, num_rounds, gens_capacity, seed) ==
    LET k == Len(input)
        k_original == Len(C1_prime)
    IN  IF k <= 1 THEN [tag |-> "InputLengthError", transcript |-> T]
        ELSE IF k_original > Len(output) THEN [tag |-> "Panic", transcript |-> T]
        ELSE LET T1 == append_message(append_message(T, "dom-sep", ShuffleName),
                                      "k", ScalarBytes(k % Order))
                 v_blinding == Rng(seed, 0)
                 committed == Prover_commit_vec(Prover_new(gens_capacity, T1), output,
                                                v_blinding, k_original)
                 cs == fill_cs(Prover_finalize_inputs(committed.prover), committed.vars,
                               input, k_original)
                 proved == ProverCS_prove(cs, C1_prime, C2_prime, r_prime, k_fold, num_rounds, seed)
             IN  IF proved.tag # "Ok" THEN proved
                 ELSE [tag |-> "Ok", transcript |-> proved.transcript,
                       proof |-> proved.proof, output_commitment |-> committed.V]

\* KShuffleGadget::verify
KShuffleGadget_verify(T, proof_, input, output_commitment, C1_prime, C2_prime, C, gens_capacity, r, checked) ==
    LET k == Len(input)
        T1 == append_message(append_message(T, "dom-sep", ShuffleName),
                             "k", ScalarBytes(k % Order))
        committed == Verifier_commit_vec(Verifier_new(gens_capacity, T1), output_commitment, k)
        k_original == Len(C1_prime)
        cs == fill_cs(Verifier_finalize_inputs(committed.verifier), committed.vars,
                      input, k_original)
    IN  VerifierCS_verify(cs, proof_, C1_prime, C2_prime, C, r, checked)

\* kshuffle_verify_helper: the statement of an honest shuffle.  The inputs, the
\* permutation and the re-randomizers are drawn from the seed; the ciphertexts
\* C1_i, C2_i are independent generators
ShuffleStatement(c) ==
    LET k_original == c.k_original
        input == Vec([i \in 1..k_original |-> (c.seed + 2 * i) % Order])
        indices == Vec([j \in 1..k_original |-> ((j - 1 + c.shift) % k_original) + 1])
        output == Vec([j \in 1..k_original |-> input[indices[j]]])
        r_i == Vec([j \in 1..k_original |-> Rng(c.seed, 40 + j)])
        C1 == GensC1(k_original)
        C2 == GensC2(k_original)
    IN  [input_padded |-> PadScalars(input, c.n_padded - k_original),
         output_padded |-> PadScalars(output, c.n_padded - k_original),
         C1_prime |-> Vec([j \in 1..k_original |-> PAdd(C1[indices[j]], PMul(r_i[j], B))]),
         C2_prime |-> Vec([j \in 1..k_original |->
                              PAdd(C2[indices[j]], PMul(r_i[j], B_blinding))]),
         r_prime |-> SNeg(inner_product(r_i, output)),
         C |-> <<multiscalar_mul(input, C1), multiscalar_mul(input, C2)>>]

ShuffleConfigs ==
    { [kind |-> "shuffle", k_original |-> k_original, n_padded |-> n_padded,
       k |-> k_fold, d |-> num_rounds, shift |-> shift, seed |-> seed] :
        k_original \in 1..MaxLen, n_padded \in 2..MaxLen,
        k_fold \in 2..MaxK, num_rounds \in 1..MaxD,
        shift \in 0..MaxShift, seed \in 0..MaxSeed }

InitR1CS ==
    /\ pc = "init"
    /\ cfg \in { c \in ShuffleConfigs : c.k_original <= c.n_padded }
    /\ pt = NewTranscript(cfg.seed)
    /\ vt = NewTranscript(cfg.seed)
    /\ proof = None
    /\ wire = <<>>
    /\ decoded = None
    /\ result = None
    /\ prv = None
    /\ vrf = None

Shuffle_Prove ==
    /\ pc = "init"
    /\ \E st \in {ShuffleStatement(cfg)} :
       \E r \in {KShuffleGadget_prove(pt, st.input_padded, st.output_padded, st.C1_prime,
                                     st.C2_prime, st.r_prime, cfg.k, cfg.d, cfg.n_padded,
                                     cfg.seed)} :
           /\ r.tag = "Ok"
           /\ proof' = [proof |-> r.proof, out_commitment |-> r.output_commitment]
           /\ pt' = r.transcript
    /\ pc' = "proved"
    /\ UNCHANGED <<prv, vrf, cfg, vt, wire, decoded, result>>

R1CS_ToBytes ==
    /\ pc = "proved"
    /\ wire' = R_to_bytes(proof.proof)
    /\ pc' = "encoded"
    /\ UNCHANGED <<prv, vrf, cfg, pt, vt, proof, decoded, result>>

\* the declared length of the first blob is replaced by 2^64 - delta and the one of
\* the second blob is raised by the first length plus delta: the 64-bit sum of the
\* offset and the two declared lengths is unchanged
R1CS_AlterDeclared ==
    /\ pc = "encoded"
    /\ \E delta \in 1..MaxExtra :
          LET at == (13 + 8) * 32
              ipp_len == U64At(wire, at)
              ecp_len == U64At(wire, at + 8)
          IN  wire' = SubSeq(wire, 1, at)
                      \o <<256 - delta, 255, 255, 255, 255, 255, 255, 255>>
                      \o U64Bytes(ecp_len + ipp_len + delta)
                      \o SubSeq(wire, at + 17, Len(wire))
    /\ pc' = "altered"
    /\ UNCHANGED <<prv, vrf, cfg, pt, vt, proof, decoded, result>>

R1CS_FromBytes ==
    /\ pc \in {"encoded", "altered"}
    /\ cfg.kind = "shuffle"
    /\ \E checked \in BOOLEAN : decoded' = R_from_bytes(wire, checked)
    /\ pc' = IF pc = "encoded" THEN "decoded" ELSE "decoded_altered"
    /\ UNCHANGED <<prv, vrf, cfg, pt, vt, proof, wire, result>>

Shuffle_Verify ==
    /\ pc \in {"decoded", "corrupted", "bad_witness"}
    /\ cfg.kind = "shuffle"
    /\ decoded.tag = "Ok"
    /\ \E r \in 0..(Order - 1), checked \in BOOLEAN :
       \E st \in {ShuffleStatement(cfg)} :
       \E res \in {KShuffleGadget_verify(vt, decoded.val, st.input_padded, proof.out_commitment,
                                         st.C1_prime, st.C2_prime, st.C, cfg.n_padded, r,
                                         checked)} :
           /\ result' = IF pc = "bad_witness" THEN [tag |-> res.tag, r |-> r]
                        ELSE [tag |-> res.tag]
           /\ vt' = res.transcript
    /\ pc' = IF pc = "decoded" THEN "verified" ELSE "verified_" \o pc
    /\ UNCHANGED <<prv, vrf, cfg, pt, proof, wire, decoded>>

NextR1CS ==
    \/ Shuffle_Prove \/ R1CS_ToBytes \/ AlterLength \/ R1CS_AlterDeclared
    \/ R1CS_FromBytes \/ Shuffle_Verify

SpecR1CS == InitR1CS /\ [][NextR1CS]_vars

\* ------------------------------------------------- runs with a damaged proof
\* 32 bytes that are the encoding of no point
BadPoint == Vec([i \in 1..PointLen |-> 255])

\* the names of the 13 points stored in an R1CSProof
ProofPointNames ==
    {"A_I", "A_O", "S", "T_1", "T_2", "T_3", "T_4", "T_5", "T_6",
     "S_prime", "T_1_prime", "S1_prime", "S2_prime"}

\* the places of the points that VerifierCS::verify decompresses: a point of the
\* proof, the commitment V[0], a cross-term point U[r][i], a point A[r][i][h]
PointSlots(P) ==
    { <<"proof", f>> : f \in ProofPointNames }
    \cup { <<"V">> }
    \cup { <<"U", r, i>> : r \in 1..Len(P.ipp_proof.U_vecs), i \in 1..(2 * P.ipp_proof.k - 2) }
    \cup { <<"A", r, i, h>> : r \in 1..Len(P.ecp_batched.A_vecs),
                              i \in 1..(2 * P.ecp_batched.k - 2), h \in 1..2 }

\* the proof P with BadPoint stored at the slot
WithBadPoint(P, slot) ==
    IF slot[1] = "proof" THEN [P EXCEPT ![slot[2]] = BadPoint]
    ELSE IF slot[1] = "U" THEN [P EXCEPT !.ipp_proof.U_vecs[slot[2]][slot[3]] = BadPoint]
    ELSE IF slot[1] = "A"
    THEN [P EXCEPT !.ecp_batched.A_vecs[slot[2]][slot[3]][slot[4]] = BadPoint]
    ELSE P

\* a verifier that commits to nothing: finalize_inputs, then the given number of
\* multiplication gates on constants
UncommittedCS(T, gens_capacity, gates) ==
    LET cs == Verifier_finalize_inputs(Verifier_new(gens_capacity, T))
        one == << <<One, 1>> >>
    IN  IF gates = 0 THEN cs ELSE VerifierCS_multiply(cs, one, one).cs

\* the constraint systems that KShuffleGadget::prove and KShuffleGadget::verify
\* hand to prove and verify
ShuffleProverCS(T, input, output, k_original, gens_capacity, seed) ==
    LET T1 == append_message(append_message(T, "dom-sep", ShuffleName),
                             "k", ScalarBytes(Len(input) % Order))
        committed == Prover_commit_vec(Prover_new(gens_capacity, T1), output, Rng(seed, 0),
                                       k_original)
    IN  fill_cs(Prover_finalize_inputs(committed.prover), committed.vars, input, k_original)

ShuffleVerifierCS(T, input, output_commitment, k_original, gens_capacity) ==
    LET T1 == append_message(append_message(T, "dom-sep", ShuffleName),
                             "k", ScalarBytes(Len(input) % Order))
        committed == Verifier_commit_vec(Verifier_new(gens_capacity, T1), output_commitment,
                                         Len(input))
    IN  fill_cs(Verifier_finalize_inputs(committed.verifier), committed.vars, input, k_original)

\* KShuffleGadget::prove with a witness whose padding is not zero: one padding slot
\* of the committed vector holds val
Shuffle_ProveBadPadding ==
    /\ pc = "init"
    /\ cfg.k_original < cfg.n_padded
    /\ \E slot \in (cfg.k_original + 1)..cfg.n_padded, val \in 1..(Order - 1) :
       \E st \in {ShuffleStatement(cfg)} :
       \E output \in {[st.output_padded EXCEPT ![slot] = val]} :
       \E r \in {KShuffleGadget_prove(pt, st.input_padded, output, st.C1_prime, st.C2_prime,
                                     st.r_prime, cfg.k, cfg.d, cfg.n_padded, cfg.seed)} :
           /\ r.tag = "Ok"
           /\ proof' = [proof |-> r.proof, out_commitment |-> r.output_commitment,
                        output |-> output, slot |-> slot]
           /\ decoded' = [tag |-> "Ok", val |-> r.proof]
           /\ pt' = r.transcript
    /\ pc' = "bad_witness"
    /\ UNCHANGED <<prv, vrf, cfg, vt, wire, result>>

TamperConfigs == { c \in ShuffleConfigs : c.k_original <= c.n_padded /\ c.shift = 0 /\ c.seed = 0 }

InitTamper ==
    /\ pc = "init"
    /\ cfg \in TamperConfigs
    /\ pt = NewTranscript(cfg.seed)
    /\ vt = NewTranscript(cfg.seed)
    /\ proof = None
    /\ wire = <<>>
    /\ decoded = None
    /\ result = None
    /\ prv = None
    /\ vrf = None

\* one stored point of the decoded proof, or the commitment handed to the
\* verifier, is replaced by bytes that do not decompress
R1CS_CorruptPoint ==
    /\ pc = "decoded"
    /\ decoded.tag = "Ok"
    /\ \E slot \in PointSlots(decoded.val) :
          /\ decoded' = [decoded EXCEPT !.val = WithBadPoint(@, slot)]
          /\ proof' = IF slot[1] = "V" THEN [proof EXCEPT !.out_commitment = BadPoint]
                      ELSE proof
          /\ result' = [tag |-> "None", slot |-> slot]
    /\ pc' = "corrupted"
    /\ UNCHANGED <<prv, vrf, cfg, pt, vt, wire>>

\* VerifierCS::verify of the decoded proof on a verifier without a commitment
Verify_Uncommitted ==
    /\ pc = "decoded"
    /\ decoded.tag = "Ok"
    /\ \E r \in 0..(Order - 1), checked \in BOOLEAN, gates \in 0..MaxGates :
       \E st \in {ShuffleStatement(cfg)} :
       \E res \in {VerifierCS_verify(UncommittedCS(vt, cfg.n_padded, gates), decoded.val,
                                     st.C1_prime, st.C2_prime, st.C, r, checked)} :
           /\ result' = [tag |-> res.tag, gates |-> gates, checked |-> checked]
           /\ vt' = res.transcript
    /\ pc' = "verified_uncommitted"
    /\ UNCHANGED <<prv, vrf, cfg, pt, proof, wire, decoded>>

NextTamper ==
    \/ Shuffle_Prove \/ R1CS_ToBytes \/ R1CS_FromBytes \/ R1CS_CorruptPoint
    \/ Shuffle_Verify \/ Verify_Uncommitted \/ Shuffle_ProveBadPadding

SpecTamper == InitTamper /\ [][NextTamper]_vars

\* ------------------------------------------- building a constraint system
\* ProverCS::allocate; assign_fn is the result of the closure
ProverCS_allocate(cs, assign_fn) ==
    IF assign_fn.tag # "Ok" THEN [cs |-> cs, tag |-> assign_fn.tag, vars |-> <<>>, invoked |-> TRUE]
    ELSE [cs |-> [cs EXCEPT !.a_L = Append(@, assign_fn.l), !.a_R = Append(@, assign_fn.r),
                            !.a_O = Append(@, assign_fn.o)],
          tag |-> "Ok",
          vars |-> << <<"MultiplierLeft", Len(cs.a_L)>>, <<"MultiplierRight", Len(cs.a_R)>>,
                      <<"MultiplierOutput", Len(cs.a_O)>> >>,
          invoked |-> TRUE]

\* a faulty variant: the placeholder gate is not counted
VerifierCS_allocate_no_count(cs, assign_fn) ==
    [cs |-> cs, tag |-> "Ok",
     vars |-> << <<"MultiplierLeft", cs.num_vars>>, <<"MultiplierRight", cs.num_vars>>,
                 <<"MultiplierOutput", cs.num_vars>> >>,
     invoked |-> FALSE]

\* VerifierCS::allocate: the closure is not called
VerifierCS_allocate(cs, assign_fn) ==
    LET var == cs.num_vars
    IN  [cs |-> [cs EXCEPT !.num_vars = @ + 1],
         tag |-> "Ok",
         vars |-> << <<"MultiplierLeft", var>>, <<"MultiplierRight", var>>,
                     <<"MultiplierOutput", var>> >>,
         invoked |-> FALSE]

\* Drop for ProverCS: the memory of the buffers afterwards.  self.v.clear() is
\* Vec::clear, which sets the length to 0 and writes nothing to the buffer; the
\* scalar v_blinding and the elements of a_L, a_R, a_O are overwritten
ProverCS_drop(cs) ==
    [cs EXCEPT !.v_blinding = 0, !.a_L = Zeros(Len(@)), !.a_R = Zeros(Len(@)),
               !.a_O = Zeros(Len(@))] @@ [v_len |-> 0]

CSConfigs ==
    { [kind |-> "cs", gens_capacity |-> g, seed |-> seed] : g \in {0, 1, MaxLen}, seed \in 0..MaxSeed }

InitCS ==
    /\ pc = "inputs"
    /\ cfg \in CSConfigs
    /\ pt = NewTranscript(cfg.seed)
    /\ vt = NewTranscript(cfg.seed)
    /\ proof = None
    /\ wire = <<>>
    /\ decoded = None
    /\ result = [calls |-> <<>>, exit |-> "None", locals |-> None, satisfied |-> FALSE,
                 verdict |-> "None", checked |-> FALSE]
    /\ prv = Prover_new(cfg.gens_capacity, pt)
    /\ vrf = Verifier_new(cfg.gens_capacity, vt)

NumCalls(ops) == Cardinality({i \in 1..Len(result.calls) : result.calls[i].op \in ops})

\* commit_vec on both sides with a vector of the length n
CS_CommitVec ==
    /\ pc = "inputs"
    /\ NumCalls({"commit_vec"}) < MaxVecs
    /\ \E n \in 1..MaxVecLen :
       \E p \in {Prover_commit_vec(prv, WitB(n, cfg.seed + prv.m),
                                   Rng(cfg.seed, prv.m), n)} :
       \E v \in {Verifier_commit_vec(vrf, p.V, n)} :
           /\ prv' = p.prover
           /\ vrf' = v.verifier
           /\ result' = [result EXCEPT !.calls =
                            Append(@, [op |-> "commit_vec", n |-> n, p |-> p.vars, v |-> v.vars])]
    /\ UNCHANGED <<pc, cfg, pt, vt, proof, wire, decoded>>

\* finalize_inputs on both sides
CS_FinalizeInputs ==
    /\ pc = "inputs"
    /\ prv' = [prv EXCEPT !.cs = Prover_finalize_inputs(prv)]
    /\ vrf' = [vrf EXCEPT !.cs = Verifier_finalize_inputs(vrf)]
    /\ pc' = "gates"
    /\ UNCHANGED <<cfg, pt, vt, proof, wire, decoded, result>>

\* the linear combinations passed to the calls: the constant, the first committed
\* variable minus one, the output of the last gate
LcChoices ==
    { << <<One, 1>> >> }
    \cup (IF Len(prv.cs.v) > 0 THEN { LcVarMinus(<<"Committed", 0>>, 1) } ELSE {})
    \cup (IF Len(prv.cs.a_O) > 0 /\ Len(prv.cs.a_O) = vrf.cs.num_vars
          THEN { << <<<<"MultiplierOutput", Len(prv.cs.a_O) - 1>>, 1>> >> } ELSE {})

CS_Multiply ==
    /\ pc = "gates"
    /\ NumCalls({"multiply", "allocate", "constrain"}) < MaxOps
    /\ \E left \in LcChoices, right \in LcChoices :
       \E p \in {ProverCS_multiply(prv.cs, left, right)} :
       \E v \in {VerifierCS_multiply(vrf.cs, left, right)} :
           /\ prv' = [prv EXCEPT !.cs = p.cs]
           /\ vrf' = [vrf EXCEPT !.cs = v.cs]
           /\ result' = [result EXCEPT !.calls =
                            Append(@, [op |-> "multiply", p |-> [tag |-> "Ok", vars |-> p.vars],
                                       v |-> [tag |-> "Ok", vars |-> v.vars]])]
    /\ UNCHANGED <<pc, cfg, pt, vt, proof, wire, decoded>>

\* the closure returns an assignment or an error
CS_Allocate ==
    /\ pc = "gates"
    /\ NumCalls({"multiply", "allocate", "constrain"}) < MaxOps
    /\ \E assign_fn \in {[tag |-> "Ok", l |-> 1, r |-> 2, o |-> 2],
                         [tag |-> "MissingAssignment"]} :
       \E p \in {ProverCS_allocate(prv.cs, assign_fn)} :
       \E v \in {VerifierCS_allocate(vrf.cs, assign_fn)} :
           /\ prv' = [prv EXCEPT !.cs = p.cs]
           /\ vrf' = [vrf EXCEPT !.cs = v.cs]
           /\ result' = [result EXCEPT !.calls =
                            Append(@, [op |-> "allocate",
                                       p |-> [tag |-> p.tag, vars |-> p.vars, invoked |-> p.invoked],
                                       v |-> [tag |-> v.tag, vars |-> v.vars, invoked |-> v.invoked]])]
    /\ UNCHANGED <<pc, cfg, pt, vt, proof, wire, decoded>>

CS_Constrain ==
    /\ pc = "gates"
    /\ NumCalls({"multiply", "allocate", "constrain"}) < MaxOps
    /\ \E lc \in LcChoices :
           /\ prv' = [prv EXCEPT !.cs = constrain(@, lc)]
           /\ vrf' = [vrf EXCEPT !.cs = constrain(@, lc)]
           /\ result' = [result EXCEPT !.calls = Append(@, [op |-> "constrain"])]
    /\ UNCHANGED <<pc, cfg, pt, vt, proof, wire, decoded>>

\* ProverCS::prove consumes the constraint system: it is dropped when prove
\* returns (with a proof or with an error) or unwinds
\* the statement of the consistency argument: the first committed value opens
\* C against the one-element vectors C1_prime, C2_prime, with r_prime = 0
CSStatement ==
    [C1_prime |-> GensC1(1), C2_prime |-> GensC2(1), r_prime |-> 0,
     C |-> <<PMul(WitB(1, cfg.seed)[1], GensC1(1)[1]), PMul(WitB(1, cfg.seed)[1], GensC2(1)[1])>>]

\* prove consumes the constraint system: whatever it returns, the system is dropped
CS_Prove ==
    /\ pc = "gates"
    /\ Len(prv.cs.v) > 0
    /\ \E res \in {ProverCS_prove(prv.cs, CSStatement.C1_prime, CSStatement.C2_prime,
                                   CSStatement.r_prime, 2, 1, cfg.seed)} :
           /\ result' = [result EXCEPT
                            !.exit = res.tag,
                            !.locals = IF res.tag = "Ok" THEN res.locals ELSE None,
                            !.satisfied = \A q \in 1..Len(prv.cs.constraints) :
                                              eval(prv.cs, prv.cs.constraints[q]) = 0]
           /\ proof' = IF res.tag = "Ok" THEN res.proof ELSE None
           /\ pt' = res.transcript
    /\ prv' = [prv EXCEPT !.cs = ProverCS_drop(@)]
    /\ pc' = "exited"
    /\ UNCHANGED <<cfg, vt, wire, decoded, vrf>>

\* a well-formed proof of another statement: one committed value, no gate
SampleProof ==
    LET committed == Prover_commit_vec(Prover_new(1, NewTranscript(0)), <<1>>, 1, 1)
    IN  ProverCS_prove(Prover_finalize_inputs(committed.prover), GensC1(1), GensC2(1),
                       0, 2, 1, 0).proof

\* verify, called with the proof the prover returned or, when it returned none,
\* with a well-formed proof of another statement
CS_Verify ==
    /\ pc = "exited"
    /\ result.exit # "Dropped"
    /\ \E r \in 1..MaxWeight, checked \in BOOLEAN :
       \E res \in {VerifierCS_verify(vrf.cs, IF result.exit = "Ok" THEN proof ELSE SampleProof,
                                     CSStatement.C1_prime, CSStatement.C2_prime,
                                     CSStatement.C, r, checked)} :
           /\ result' = [result EXCEPT !.verdict = res.tag, !.checked = checked]
           /\ vt' = res.transcript
    /\ pc' = "checked"
    /\ UNCHANGED <<cfg, pt, proof, wire, decoded, prv, vrf>>

\* the Prover or the ProverCS goes out of scope without a call of prove
CS_Drop ==
    /\ pc \in {"inputs", "gates"}
    /\ result' = [result EXCEPT !.exit = "Dropped"]
    /\ prv' = [prv EXCEPT !.cs = ProverCS_drop(@)]
    /\ pc' = "exited"
    /\ UNCHANGED <<cfg, pt, vt, proof, wire, decoded, vrf>>

NextCS ==
    \/ CS_CommitVec \/ CS_FinalizeInputs \/ CS_Multiply \/ CS_Allocate \/ CS_Constrain
    \/ CS_Prove \/ CS_Drop \/ CS_Verify

SpecCS == InitCS /\ [][NextCS]_vars

\* ------------------------------------------- committing on the verifier's side
\* Verifier::commit
Verifier_commit(verifier, commitment) ==
    [verifier |-> [m |-> verifier.m + 1,
                   cs |-> [verifier.cs EXCEPT !.V = Append(@, commitment),
                                              !.transcript = commit_point(@, "V", commitment)]],
     var |-> <<"Committed", verifier.m>>]

InputConfigs ==
    { [kind |-> "inputs", gens_capacity |-> MaxLen, seed |-> seed] : seed \in 0..MaxSeed }

InitInputs ==
    /\ pc = "inputs"
    /\ cfg \in InputConfigs
    /\ pt = NewTranscript(cfg.seed)
    /\ vt = NewTranscript(cfg.seed)
    /\ proof = None
    /\ wire = <<>>
    /\ decoded = None
    /\ result = [calls |-> <<>>, handles |-> <<>>]
    /\ prv = None
    /\ vrf = Verifier_new(cfg.gens_capacity, vt)

\* the commitment passed to the next call: any point
NextCommitment == compress(PMul(1 + Len(result.calls), B))

In_Commit ==
    /\ pc = "inputs"
    /\ Len(result.calls) < MaxInputCalls
    /\ \E c \in {Verifier_commit(vrf, NextCommitment)} :
           /\ vrf' = c.verifier
           /\ result' = [calls |-> Append(result.calls, "commit"),
                         handles |-> Append(result.handles, c.var)]
    /\ UNCHANGED <<pc, cfg, pt, vt, proof, wire, decoded, prv>>

In_CommitVec ==
    /\ pc = "inputs"
    /\ Len(result.calls) < MaxInputCalls
    /\ \E n \in 1..MaxVecLen :
       \E c \in {Verifier_commit_vec(vrf, NextCommitment, n)} :
           /\ vrf' = c.verifier
           /\ result' = [calls |-> Append(result.calls, "commit_vec"),
                         handles |-> result.handles \o c.vars]
    /\ UNCHANGED <<pc, cfg, pt, vt, proof, wire, decoded, prv>>

\* finalize_inputs, then a constraint on every handle returned so far
In_FinalizeInputs ==
    /\ pc = "inputs"
    /\ vrf' = [vrf EXCEPT !.cs = Verifier_finalize_inputs(vrf)]
    /\ pc' = "finalized"
    /\ UNCHANGED <<cfg, pt, vt, proof, wire, decoded, prv, result>>

In_Constrain ==
    /\ pc = "finalized"
    /\ Len(vrf.cs.constraints) < Len(result.handles)
    /\ vrf' = [vrf EXCEPT !.cs = constrain(@, LcVarMinus(result.handles[Len(vrf.cs.constraints) + 1], 0))]
    /\ UNCHANGED <<pc, cfg, pt, vt, proof, wire, decoded, prv, result>>

NextInputs == In_Commit \/ In_CommitVec \/ In_FinalizeInputs \/ In_Constrain

SpecInputs == InitInputs /\ [][NextInputs]_vars

\* ------------------------------------------------------------------ claims
FinalLen == IF cfg.kind = "K_BulletProof" THEN Len(proof.a_final) ELSE Len(proof.z)
NumRounds == IF cfg.kind = "K_BulletProof" THEN Len(proof.U_vecs) ELSE Len(proof.A_vecs)

\* C1: K-ary folding completeness: for k >= 2, d >= 1 and 1 <= n <= k^d the proof
\* returned by K_BulletProof::create is accepted by K_BulletProof::verify against
\* P = <a,G> + <b,H> + <a,b> Q from the same transcript state
C1_Completeness ==
    (pc = "verified" /\ cfg.kind = "K_BulletProof" /\ cfg.d >= 1 /\ cfg.n <= Pow(cfg.k, cfg.d))
        => result.tag = "Ok"

\* a verified run whose length is not a multiple of k in the first round and is
\* padded again in the second (4 -> 6 -> 2 -> 3 -> 1), with a non-zero witness
C1_Witness ==
    /\ pc = "verified" /\ cfg.kind = "K_BulletProof"
    /\ cfg.k = 3 /\ cfg.d = 2 /\ cfg.n = 4
    /\ cfg.a[1] # 0
    /\ result.tag = "Ok"

\* C2: end-to-end completeness of the aggregated protocol: for an honest shuffle
\* statement, padded from k_original to n_padded, prove followed by to_bytes,
\* from_bytes and verify with the same commit_vec / fill_cs sequence returns Ok
\* for every k_fold >= 2 and num_rounds >= 1, whatever batching scalar r the
\* verifier draws
C2_Completeness ==
    (pc = "verified" /\ cfg.kind = "shuffle" /\ cfg.k >= 2 /\ cfg.d >= 1) => result.tag = "Ok"

\* an accepted shuffle of three values by a rotation, padded to four wires and
\* folded by 3 in two rounds
C2_Witness ==
    /\ pc = "verified" /\ cfg.kind = "shuffle"
    /\ cfg.k_original = 3 /\ cfg.n_padded = 4 /\ cfg.shift = 1
    /\ cfg.k = 3 /\ cfg.d = 2
    /\ Len(decoded.val.ipp_proof.U_vecs) = 2
    /\ result.tag = "Ok"

\* C3: batched consistency completeness: for k >= 2, d >= 1, n >= 1 the proof
\* returned by batched_eCP::create is accepted by batched_eCP::verify against
\* P0 = <a,G>, P1 = <a,C1> from the same transcript state
C3_Completeness ==
    (pc = "verified" /\ cfg.kind = "batched_eCP" /\ cfg.d >= 1) => result.tag = "Ok"

C3_Witness ==
    /\ pc = "verified" /\ cfg.kind = "batched_eCP"
    /\ cfg.k = 3 /\ cfg.d = 2 /\ cfg.n = 4
    /\ cfg.a[1] # 0
    /\ result.tag = "Ok"

\* C4: folding-proof round trip: from_bytes(to_bytes(P)) returns Ok(P') with the
\* same k, the same number of rounds, the same points in every round in the same
\* order and the same final scalar vectors
C4_RoundTrip ==
    pc = "decoded" =>
        /\ decoded.tag = "Ok"
        /\ decoded.val.k = proof.k
        /\ IF cfg.kind = "K_BulletProof"
           THEN /\ Len(decoded.val.U_vecs) = Len(proof.U_vecs)
                /\ \A r \in 1..Len(proof.U_vecs) : decoded.val.U_vecs[r] = proof.U_vecs[r]
                /\ decoded.val.a_final = proof.a_final
                /\ decoded.val.b_final = proof.b_final
           ELSE /\ Len(decoded.val.A_vecs) = Len(proof.A_vecs)
                /\ \A r \in 1..Len(proof.A_vecs) : decoded.val.A_vecs[r] = proof.A_vecs[r]
                /\ decoded.val.z = proof.z

\* a decoded proof with two rounds of 2k-2 = 4 points and a non-zero final scalar
C4_Witness ==
    /\ pc = "decoded" /\ cfg.k = 3 /\ cfg.d = 2
    /\ decoded.tag = "Ok"
    /\ NumRounds = 2 /\ Len(wire) > 3 * PointLen
    /\ \E x \in 1..FinalLen :
          IF cfg.kind = "K_BulletProof" THEN proof.a_final[x] # 0 ELSE proof.z[x] # 0

\* C5: R1CSProof round trip: from_bytes(to_bytes(P)) of a proof P made by prove
\* returns Ok(P') with each of the 13 points and 8 scalars in the field of the
\* same name and with both embedded folding proofs equal to the original ones
C5_RoundTrip ==
    (pc = "decoded" /\ cfg.kind = "shuffle") =>
        /\ decoded.tag = "Ok"
        /\ decoded.val.A_I = proof.proof.A_I
        /\ decoded.val.A_O = proof.proof.A_O
        /\ decoded.val.S = proof.proof.S
        /\ decoded.val.T_1 = proof.proof.T_1
        /\ decoded.val.T_2 = proof.proof.T_2
        /\ decoded.val.T_3 = proof.proof.T_3
        /\ decoded.val.T_4 = proof.proof.T_4
        /\ decoded.val.T_5 = proof.proof.T_5
        /\ decoded.val.T_6 = proof.proof.T_6
        /\ decoded.val.S_prime = proof.proof.S_prime
        /\ decoded.val.T_1_prime = proof.proof.T_1_prime
        /\ decoded.val.S1_prime = proof.proof.S1_prime
        /\ decoded.val.S2_prime = proof.proof.S2_prime
        /\ decoded.val.t_x = proof.proof.t_x
        /\ decoded.val.t_x_blinding = proof.proof.t_x_blinding
        /\ decoded.val.e_blinding = proof.proof.e_blinding
        /\ decoded.val.tc_x = proof.proof.tc_x
        /\ decoded.val.tc_x_blinding = proof.proof.tc_x_blinding
        /\ decoded.val.ec_blinding = proof.proof.ec_blinding
        /\ decoded.val.t_cross = proof.proof.t_cross
        /\ decoded.val.r_blinding = proof.proof.r_blinding
        /\ decoded.val.ipp_proof = proof.proof.ipp_proof
        /\ decoded.val.ecp_batched = proof.proof.ecp_batched

\* a decoded proof whose T points differ from one another, with two rounds in
\* each embedded folding proof
C5_Witness ==
    /\ pc = "decoded" /\ cfg.kind = "shuffle"
    /\ decoded.tag = "Ok"
    /\ proof.proof.T_2 # proof.proof.T_3
    /\ proof.proof.S_prime # proof.proof.S1_prime
    /\ proof.proof.t_x # proof.proof.tc_x
    /\ Len(proof.proof.ipp_proof.U_vecs) = 2
    /\ Len(proof.proof.ecp_batched.A_vecs) = 2

\* the input is exactly as long as the fixed part, the two length fields and the
\* two declared blob lengths
DeclaredExact ==
    LET at == (13 + 8) * 32
    IN  /\ Len(wire) >= at + 16
        /\ \A i \in 4..8 : wire[at + i] = 0 /\ wire[at + 8 + i] = 0
        /\ Len(wire) = at + 16 + U64At(wire, at) + U64At(wire, at + 8)

\* C6: R1CSProof::from_bytes returns FormatError unless the input length equals
\* exactly 13*32 + 8*32 + 16 plus the two declared blob lengths: an input with
\* trailing bytes or with fewer bytes than declared is rejected
C6_ExactLength ==
    (pc \in {"decoded", "decoded_altered"} /\ cfg.kind = "shuffle" /\ ~DeclaredExact)
        => decoded.tag = "FormatError"

\* C7: each folding-proof decoder returns FormatError for every input whose
\* length is not a multiple of 32 bytes
C7_RejectsUnaligned ==
    (pc \in {"decoded", "decoded_altered"} /\ Len(wire) % PointLen # 0)
        => decoded.tag = "FormatError"

\* C8: fold-length agreement: the final vectors of an honest proof have the
\* length of the last element of reconstruct_round_lengths(n, k, d)
C8_FoldLength ==
    pc # "init" =>
        /\ FinalLen = Last(reconstruct_round_lengths(cfg.n, cfg.k, cfg.d))
        /\ cfg.kind = "K_BulletProof" => Len(proof.b_final) = Len(proof.a_final)

\* a proof whose length was padded in two rounds and one that stops at m > 1
C8_Witness ==
    /\ pc = "created"
    /\ \/ cfg.k = 3 /\ cfg.d = 2 /\ cfg.n = 4 /\ FinalLen = 1
       \/ cfg.k = 2 /\ cfg.d = 1 /\ cfg.n = 3 /\ FinalLen = 2

ClaimedMismatch ==
    /\ pc = "scalars"
    /\ Last(reconstruct_round_lengths(result.n, proof.k, NumRounds)) # FinalLen

\* C9 as stated: whenever the claimed n recomputes to an m different from the
\* length of the final vectors, verification_scalars returns VerificationError
\* and the transcript is untouched
C9_AsStated ==
    ClaimedMismatch => (result.tag = "VerificationError" /\ vt = NewTranscript(cfg.seed))

\* C9: for a claimed n >= 1 that recomputes to a different m, verification_scalars
\* of both arguments returns VerificationError with the transcript untouched; for
\* the claimed n = 0 batched_eCP does the same and K_BulletProof returns
\* InvalidGeneratorsLength, also with the transcript untouched
C9_Mismatch ==
    ClaimedMismatch =>
        /\ vt = NewTranscript(cfg.seed)
        /\ result.tag = IF result.n = 0 /\ cfg.kind = "K_BulletProof"
                        THEN "InvalidGeneratorsLength" ELSE "VerificationError"

C9_Witness ==
    /\ ClaimedMismatch
    /\ result.n >= 1 /\ result.n # cfg.n
    /\ result.tag = "VerificationError"
    /\ vt = NewTranscript(cfg.seed)

\* ceil(n / r): the least q with n <= q * r
CeilDiv(n, r) == CHOOSE q \in 0..n : n <= q * r /\ (q = 0 \/ (q - 1) * r < n)

\* C10: the last element of reconstruct_round_lengths(n, k, d) is ceil(n / k^d);
\* (16, 4, 1) gives 4, (16, 4, 2) gives 1, and m = 1 whenever n <= k^d; the
\* bench's helper and its configuration search compute the same m
C10_ClosedForm ==
    pc = "lengths" =>
        /\ Last(result.lengths) = CeilDiv(cfg.n, Pow(cfg.k, cfg.d))
        /\ Len(result.lengths) = cfg.d + 1
        /\ (cfg.n = 16 /\ cfg.k = 4 /\ cfg.d = 1) => Last(result.lengths) = 4
        /\ (cfg.n = 16 /\ cfg.k = 4 /\ cfg.d = 2) => Last(result.lengths) = 1
        /\ cfg.n <= Pow(cfg.k, cfg.d) => Last(result.lengths) = 1
        /\ result.helper = result.lengths
        /\ result.m = Last(result.lengths)

\* lengths that are padded in both rounds: 10 -> 12 -> 3 -> 4 -> 1
C10_Witness ==
    /\ pc = "lengths"
    /\ cfg.n = 10 /\ cfg.k = 4 /\ cfg.d = 2
    /\ result.lengths = <<10, 3, 1>>

\* the labels of the messages and challenges of a transcript, in order
LabelsOf(T) == Vec([i \in 1..Len(T.log) |-> T.log[i][1]])

\* the labels of the aggregated protocol up to the K-ary folding argument
R1CSLabels ==
    << "V", "m", "k-scalar shuffle challenge", "A_I", "A_O", "S", "y", "z",
       "T_1", "T_3", "T_4", "T_5", "T_6", "T_2", "x", "t_x", "t_x_blinding", "e_blinding",
       "S_prime", "T_1_prime", "S1_prime", "S2_prime", "x_prime",
       "tc_x", "tc_x_blinding", "ec_blinding", "r_blinding", "t_cross", "x_ipp", "w_agg" >>

\* the position of the first message of the gadget's constraint system (after the
\* domain separators and k), of the K-ary sub-transcript and of the challenge
\* chall_batched_ecp that follows its d rounds of 2k-2 points
PosV == Len(NewTranscript(0).log) + 4
PosFold == PosV + Len(R1CSLabels)
PosBatched == PosFold + 3 + cfg.d * (3 * (2 * cfg.k - 2) + 3)

\* C11: the R1CS verifier performs the same ordered sequence of labelled transcript
\* operations as the prover: V, m, the circuit challenge, A_I, A_O, S, y, z, T_1,
\* T_3, T_4, T_5, T_6, T_2, x, ..., x_ipp, w_agg, the K-ary sub-transcript,
\* chall_batched_ecp, the batched sub-transcript; both sub-arguments are entered
\* with the same length n (the number of committed values) on both sides
C11_SameTranscript ==
    (pc = "verified" /\ cfg.kind = "shuffle") =>
        /\ vt.log = pt.log
        /\ SubSeq(LabelsOf(vt), PosV, PosFold - 1) = R1CSLabels
        /\ SubSeq(LabelsOf(pt), PosV, PosFold - 1) = R1CSLabels
        /\ \A T \in {pt, vt} :
              /\ T.log[PosFold] = <<"protocol-name", KBulletName>>
              /\ T.log[PosFold + 1] = <<"n", U64Bytes(cfg.n_padded)>>
              /\ T.log[PosBatched] = <<"chall_batched_ecp", <<>> >>
              /\ T.log[PosBatched + 1] = <<"protocol-name", KIppName>>
              /\ T.log[PosBatched + 2] = <<"n", U64Bytes(cfg.n_padded)>>
              /\ Len(T.log) = PosBatched + 3 + cfg.d * (4 * (2 * cfg.k - 2) + 3)

\* a verified shuffle with two rounds of four points in each sub-transcript
C11_Witness ==
    /\ pc = "verified" /\ cfg.kind = "shuffle"
    /\ cfg.k = 3 /\ cfg.d = 2 /\ cfg.n_padded = 4 /\ cfg.k_original = 2
    /\ vt.log[PosBatched][1] = "chall_batched_ecp"
    /\ result.tag = "Ok"

\* the challenge squeezed at position i of the log of T, computed from the
\* messages before it
ChallengeAt(T, i) ==
    ChallengeValue([log |-> SubSeq(T.log, 1, i - 1),
                    st |-> LogDigest(T.log, 1, i - 1) % HashMod], T.log[i][1])

\* the number of transcript operations of one round of K_BulletProof, and the
\* position of the last operation before round r
KRoundOps == 3 * (2 * cfg.k - 2) + 3
KRoundBase(r) == Len(NewTranscript(0).log) + 3 + r * KRoundOps

\* C12: challenge replay: for a proof made by create(n, k, d), verification_scalars(n)
\* appends the same ordered messages as create (protocol-name, n, k; for each round
\* r and each point index idx the triple r, idx, point; then the challenge prefix
\* and index r), derives the challenge of a round from the transcript after all
\* points of that round and before any point of the next, and so obtains the
\* challenges of create; the proof holds no challenge
C12_ChallengeReplay ==
    (pc = "scalars" /\ result.n = cfg.n) =>
        /\ result.tag = "Ok"
        /\ vt.log = pt.log
        /\ cfg.kind = "K_BulletProof" =>
            /\ DOMAIN proof = {"k", "U_vecs", "a_final", "b_final"}
            /\ SubSeq(vt.log, 2, KRoundBase(0))
                   = << <<"protocol-name", KBulletName>>, <<"n", U64Bytes(cfg.n)>>,
                        <<"k", U64Bytes(cfg.k)>> >>
            /\ Len(vt.log) = KRoundBase(cfg.d)
            /\ \A r \in 0..(cfg.d - 1) :
                  /\ \A idx \in 0..(2 * cfg.k - 3) :
                        SubSeq(vt.log, KRoundBase(r) + 3 * idx + 1, KRoundBase(r) + 3 * idx + 3)
                            = << <<"U_round", U64Bytes(r)>>, <<"U_index", U64Bytes(idx)>>,
                                 <<"U_point", proof.U_vecs[r + 1][idx + 1]>> >>
                  /\ SubSeq(vt.log, KRoundBase(r + 1) - 2, KRoundBase(r + 1))
                         = << <<"challenge_prefix", CPrefix>>,
                              <<"challenge_index", U64Bytes(r)>>,
                              <<"challenge_separator", <<>> >> >>
                  /\ KReplay(KCreateHeader(NewTranscript(cfg.seed), cfg.n, cfg.k), proof,
                             cfg.d).cs[r + 1] = ChallengeAt(pt, KRoundBase(r + 1))

\* verification_scalars has replayed two rounds of four points
C12_Witness ==
    /\ pc = "scalars" /\ result.n = cfg.n /\ cfg.kind = "K_BulletProof"
    /\ cfg.k = 3 /\ cfg.d = 2 /\ cfg.n = 4
    /\ result.tag = "Ok"
    /\ vt.log[KRoundBase(1) + 1] = <<"U_round", U64Bytes(1)>>

\* the verification of a proof with one stored point that does not decompress
\* returns VerificationError
C13_CorruptedRejected ==
    pc = "verified_corrupted" => result.tag = "VerificationError"

\* C13: VerifierCS::verify returns Err(VerificationError), never Ok, whenever a
\* stored point fails to decompress: one of the 13 points of the proof, V[0]
\* (also when no commitment was supplied), a cross-term point U, a point of a pair A
C13_DecompressFailure ==
    pc \in {"verified_corrupted", "verified_uncommitted"} => result.tag = "VerificationError"

\* the first round of K_BulletProof::create with k = 2 on the inputs of the run
C14_FirstRound ==
    KRound(2, B, [a |-> cfg.a, b |-> cfg.b, g |-> GensG(cfg.n), h |-> GensH(cfg.n),
                  n_j |-> cfg.n, T |-> KCreateHeader(NewTranscript(cfg.seed), cfg.n, 2),
                  U_vecs |-> <<>>], 0)

\* the first halving of InnerProductProof::create on the same inputs
C14_FirstHalving ==
    IppRound(B, Vec([i \in 1..cfg.n |-> 1]),
             [a |-> cfg.a, b |-> cfg.b, G |-> GensG(cfg.n), H |-> GensH(cfg.n), n |-> cfg.n,
              T |-> innerproduct_domain_sep(NewTranscript(cfg.seed), cfg.n),
              L_vec |-> <<>>, R_vec |-> <<>>], TRUE)

\* with k = 2 every round has one positive and one negative cross term, and on the
\* same inputs the two are the L and the R of the classical argument
C14_OnePair ==
    (pc = "classical" /\ cfg.k = 2 /\ cfg.d >= 1 /\ cfg.n >= 2 /\ decoded.tag = "Ok") =>
        /\ \A r \in 1..cfg.d : Len(proof.U_vecs[r]) = 2
        /\ proof.U_vecs[1] = <<decoded.L_vec[1], decoded.R_vec[1]>>

\* C14: with k = 2 each round of K_BulletProof::create produces one positive and
\* one negative cross term (one (L,R) pair), and its transcript operations and its
\* fold formulas for a, b, G, H are those of the classical InnerProductProof::create
\* on the same inputs (n a power of two, unit Hprime_factors)
C14_BinaryDegeneration ==
    (pc = "classical" /\ cfg.k = 2 /\ cfg.d >= 1 /\ cfg.n >= 2 /\ decoded.tag = "Ok") =>
        /\ \A r \in 1..cfg.d : Len(proof.U_vecs[r]) = 2
        /\ proof.U_vecs[1] = <<decoded.L_vec[1], decoded.R_vec[1]>>
        /\ SubSeq(C14_FirstRound.T.log, Len(NewTranscript(0).log) + 1, Len(C14_FirstRound.T.log))
               = SubSeq(C14_FirstHalving.T.log, Len(NewTranscript(0).log) + 1,
                        Len(C14_FirstHalving.T.log))
        /\ C14_FirstRound.a = C14_FirstHalving.a
        /\ C14_FirstRound.b = C14_FirstHalving.b
        /\ C14_FirstRound.g = C14_FirstHalving.G
        /\ C14_FirstRound.h = C14_FirstHalving.H

\* the fold formulas alone, on the same inputs
C14_SameFold ==
    (pc = "classical" /\ cfg.k = 2 /\ cfg.d >= 1 /\ cfg.n >= 2 /\ decoded.tag = "Ok") =>
        /\ C14_FirstRound.a = C14_FirstHalving.a
        /\ C14_FirstRound.b = C14_FirstHalving.b
        /\ C14_FirstRound.g = C14_FirstHalving.G
        /\ C14_FirstRound.h = C14_FirstHalving.H

\* after every exit the gate assignments and the blinding are zero
C15_GatesWiped ==
    pc = "exited" =>
        /\ prv.cs.v_blinding = 0
        /\ \A i \in 1..Len(prv.cs.a_L) :
              prv.cs.a_L[i] = 0 /\ prv.cs.a_R[i] = 0 /\ prv.cs.a_O[i] = 0

\* C15: on every exit path of the prover (prove returned a proof, prove returned
\* an error, the constraint system was dropped without prove) every element of
\* a_L, a_R, a_O, every committed value of v and v_blinding are overwritten with zero
C15_WitnessWiped ==
    pc = "exited" =>
        /\ prv.cs.v_blinding = 0
        /\ \A i \in 1..Len(prv.cs.a_L) :
              prv.cs.a_L[i] = 0 /\ prv.cs.a_R[i] = 0 /\ prv.cs.a_O[i] = 0
        /\ \A i \in 1..Len(prv.cs.v) : prv.cs.v[i] = 0

\* the gate calls (multiply, allocate) among the first i - 1 calls
GatesBefore(i) ==
    Cardinality({j \in 1..(i - 1) : result.calls[j].op \in {"multiply", "allocate"}})

GateHandles(g) == << <<"MultiplierLeft", g>>, <<"MultiplierRight", g>>, <<"MultiplierOutput", g>> >>

\* both sides returned the handles of the next gate at every gate call, count the
\* same gates and hold the same constraints; the verifier called no closure
SameSystem ==
    /\ \A i \in 1..Len(result.calls) :
          result.calls[i].op \in {"multiply", "allocate"} =>
              /\ result.calls[i].p.tag = "Ok" /\ result.calls[i].v.tag = "Ok"
              /\ result.calls[i].p.vars = GateHandles(GatesBefore(i))
              /\ result.calls[i].v.vars = GateHandles(GatesBefore(i))
              /\ result.calls[i].op = "allocate" => ~result.calls[i].v.invoked
    /\ Len(prv.cs.a_L) = vrf.cs.num_vars
    /\ Len(prv.cs.a_R) = vrf.cs.num_vars
    /\ Len(prv.cs.a_O) = vrf.cs.num_vars
    /\ vrf.cs.num_vars = NumCalls({"multiply", "allocate"})
    /\ prv.cs.constraints = vrf.cs.constraints
    /\ Len(vrf.cs.constraints) = 2 * NumCalls({"multiply"}) + NumCalls({"constrain"})

\* every closure passed to allocate returned an assignment
ClosuresOk ==
    \A i \in 1..Len(result.calls) :
        result.calls[i].op = "allocate" => result.calls[i].p.tag = "Ok"

\* C16 as stated: for any sequence of multiply / allocate / constrain calls made
\* on a ProverCS and a VerifierCS alike, both return the same handles at every
\* step (the i-th gate yields MultiplierLeft(i), MultiplierRight(i),
\* MultiplierOutput(i)), end with the same gate count and the same ordered
\* constraints (two per multiply, none per allocate), and the verifier never calls
\* the closure of allocate
C16_SameHandles ==
    pc = "gates" => SameSystem

\* C16, amended: the same for the sequences in which every closure passed to
\* allocate returns an assignment; when a closure returns an error the prover's
\* allocate returns the error and adds no gate, while the verifier's adds one
C16_SameHandlesOk ==
    /\ (pc = "gates" /\ ClosuresOk) => SameSystem
    /\ (pc = "gates" /\ ~ClosuresOk) => Len(prv.cs.a_L) < vrf.cs.num_vars

\* a multiplication after an allocation whose closure returned an assignment
C16_Witness ==
    /\ pc = "gates"
    /\ Len(result.calls) = 2
    /\ result.calls[1].op = "allocate" /\ result.calls[1].p.tag = "Ok"
    /\ result.calls[2].op = "multiply"
    /\ result.calls[2].v.vars = GateHandles(1)
    /\ Len(vrf.cs.constraints) = 2

\* the sum of the lengths of the commit_vec calls among the first i - 1 calls
RECURSIVE LensBefore(_)
LensBefore(i) ==
    IF i <= 1 THEN 0
    ELSE LensBefore(i - 1)
         + (IF result.calls[i - 1].op = "commit_vec" THEN result.calls[i - 1].n ELSE 0)

CommittedHandles(s, n) == Vec([x \in 1..n |-> <<"Committed", s + x - 1>>])

\* the position of the first message after Prover::new / Verifier::new
PosInputs == Len(NewTranscript(0).log) + 2

\* C17: after commit_vec calls with the lengths n_1..n_j on both sides the i-th
\* call has returned Committed(s)..Committed(s + n_i - 1), s = n_1 + ... + n_(i-1),
\* on both sides, each call has absorbed one point labelled V, and finalize_inputs
\* absorbs the same total m = n_1 + ... + n_j on both sides (the prover's m is the
\* length of v, the verifier's m is num_inputs)
C17_CommitVec ==
    (pc \in {"inputs", "gates"}) =>
        LET j == NumCalls({"commit_vec"})
            total == LensBefore(Len(result.calls) + 1)
        IN  /\ \A i \in 1..Len(result.calls) :
                  result.calls[i].op = "commit_vec" =>
                      /\ result.calls[i].p = CommittedHandles(LensBefore(i), result.calls[i].n)
                      /\ result.calls[i].v = CommittedHandles(LensBefore(i), result.calls[i].n)
            /\ prv.m = total /\ Len(prv.cs.v) = total
            /\ vrf.m = total /\ vrf.cs.num_inputs = total
            /\ Len(vrf.cs.V) = j
            /\ \A T \in {prv.cs.transcript, vrf.cs.transcript} :
                  /\ Len(T.log) = PosInputs - 1 + j + (IF pc = "gates" THEN 1 ELSE 0)
                  /\ \A i \in 1..j : T.log[PosInputs - 1 + i] = <<"V", vrf.cs.V[i]>>
                  /\ pc = "gates" => T.log[PosInputs + j] = <<"m", U64Bytes(total)>>

\* two vectors of the lengths 2 and 1 were committed and the inputs finalized
C17_Witness ==
    /\ pc = "gates"
    /\ Len(result.calls) = 2
    /\ result.calls[1].op = "commit_vec" /\ result.calls[1].n = 2
    /\ result.calls[2].op = "commit_vec" /\ result.calls[2].n = 1
    /\ result.calls[2].v = << <<"Committed", 2>> >>
    /\ vrf.cs.transcript.log[PosInputs + 2] = <<"m", U64Bytes(3)>>

\* the constraints x[i] = 0 that fill_cs adds for the padding of n_padded slots
PaddingConstraints(k_original, n_padded) ==
    Vec([i \in 1..(n_padded - k_original) |-> LcVarMinus(<<"Committed", k_original + i - 1>>, 0)])

\* the constraints of cs that are of the form committed variable - 0, in order
ZeroConstraints(cs) ==
    SelectSeq(cs.constraints,
              LAMBDA lc : Len(lc) = 2 /\ lc[1][1][1] = "Committed" /\ lc[2] = <<One, 0>>)

\* the constraint systems of the two sides of the run
C18_ProverCS ==
    ShuffleProverCS(NewTranscript(cfg.seed), ShuffleStatement(cfg).input_padded, proof.output,
                    cfg.k_original, cfg.n_padded, cfg.seed)
C18_VerifierCS ==
    ShuffleVerifierCS(NewTranscript(cfg.seed), ShuffleStatement(cfg).input_padded,
                      proof.out_commitment, cfg.k_original, cfg.n_padded)

C19_ProofSize ==
    (pc = "encoded" /\ cfg.kind = "shuffle") =>
        LET P == proof.proof
            m == Last(reconstruct_round_lengths(cfg.n_padded, cfg.k, cfg.d))
            ipp == K_to_bytes(P.ipp_proof)
            ecp == E_to_bytes(P.ecp_batched)
        IN  /\ Len(ipp) = K_serialized_size(P.ipp_proof)
            /\ Len(ipp) = (3 + cfg.d * (2 * cfg.k - 2) + 2 * m) * 32
            /\ Len(ecp) = E_serialized_size(P.ecp_batched)
            /\ Len(ecp) = (3 + 2 * cfg.d * (2 * cfg.k - 2) + m) * 32
            /\ Len(wire) = (13 + 8) * 32 + 16 + Len(ipp) + Len(ecp)
            /\ Len(wire) = calculate_proof_size(cfg.n_padded, cfg.k, cfg.d)

\* an encoded proof of two rounds of arity 3 over four slots, folded to one entry
C19_Witness ==
    /\ pc = "encoded" /\ cfg.kind = "shuffle"
    /\ cfg.n_padded = 4 /\ cfg.k = 3 /\ cfg.d = 2
    /\ Len(proof.proof.ipp_proof.a_final) = 1
    /\ Len(wire) = calculate_proof_size(4, 3, 2)

\* the vectors that round r (from 1) of K_BulletProof::create splits into k blocks:
\* the state after r - 1 rounds, padded to a multiple of k
KRoundInput(r) ==
    LET st == KCreateRun(vt, cfg.k, GensG(cfg.n), GensH(cfg.n), B, cfg.a, cfg.b, r - 1)
        rem == st.n_j % cfg.k
        pad == IF rem # 0 THEN cfg.k - rem ELSE 0
    IN  [a |-> PadScalars(st.a, pad), b |-> PadScalars(st.b, pad),
         g |-> PadPoints(st.g, pad), h |-> PadPoints(st.h, pad),
         m |-> (st.n_j + pad) \div cfg.k]

\* C20: every round of K_BulletProof::create emits exactly 2k-2 points, the k-1
\* positive cross terms of the offsets l = 1..k-1 followed by the k-1 negative
\* cross terms of l = 1..k-1; every round of batched_eCP::create emits exactly
\* 2k-2 pairs; a proof of d rounds holds d (2k-2) points (pairs), and that is the
\* number of points verification_scalars weighs, 2k-2 per round
C20_RoundPoints ==
    (pc = "created") =>
        /\ cfg.kind = "K_BulletProof" =>
            /\ Len(proof.U_vecs) = cfg.d
            /\ \A r \in 1..cfg.d :
                  LET inp == KRoundInput(r)
                  IN  /\ Len(proof.U_vecs[r]) = 2 * cfg.k - 2
                      /\ \A l \in 1..(cfg.k - 1) :
                            /\ proof.U_vecs[r][l]
                                 = KCrossTerm(inp.a, inp.b, inp.g, inp.h, B, inp.m, cfg.k, l, FALSE)
                            /\ proof.U_vecs[r][cfg.k - 1 + l]
                                 = KCrossTerm(inp.a, inp.b, inp.g, inp.h, B, inp.m, cfg.k, l, TRUE)
            /\ Len(Concat(proof.U_vecs)) = cfg.d * (2 * cfg.k - 2)
            /\ Len(K_verification_scalars(proof, cfg.n, vt).s_U) = cfg.d * (2 * cfg.k - 2)
        /\ cfg.kind = "batched_eCP" =>
            /\ Len(proof.A_vecs) = cfg.d
            /\ \A r \in 1..cfg.d :
                  /\ Len(proof.A_vecs[r]) = 2 * cfg.k - 2
                  /\ \A idx \in 1..(2 * cfg.k - 2) : Len(proof.A_vecs[r][idx]) = 2
            /\ Len(Concat(proof.A_vecs)) = cfg.d * (2 * cfg.k - 2)
            /\ Len(E_verification_scalars(proof, cfg.n, vt).s_A_vec) = cfg.d * (2 * cfg.k - 2)

\* a proof of two rounds of arity 3 over three entries: in the first round the
\* positive and the negative cross term differ for both offsets
C20_Witness ==
    /\ pc = "created" /\ cfg.kind = "K_BulletProof"
    /\ cfg.k = 3 /\ cfg.d = 2 /\ cfg.n = 3
    /\ Len(proof.U_vecs) = 2
    /\ proof.U_vecs[1][1] # proof.U_vecs[1][3]
    /\ proof.U_vecs[1][2] # proof.U_vecs[1][4]

\* C21: for a proof made by K_BulletProof::create(n, k, d) with the generators G, H,
\* the vectors s_g, s_h of verification_scalars(n) have length n, sum s_g[i] G_i is
\* <a_final, G_folded> and sum s_h[i] H_i is <b_final, H_folded> for the generators
\* folded by create; s_P is the product over the rounds of c_r^(k-1), and s_U holds
\* per round r the weights c_r^(k-1-l) of the positive and c_r^(k-1+l) of the
\* negative term l, each times the product of c_r'^(k-1) over the later rounds
C21_ScalarsMatchFold ==
    (pc = "created" /\ cfg.kind = "K_BulletProof") =>
        LET vs == K_verification_scalars(proof, cfg.n, vt)
            run == KCreateRun(vt, cfg.k, GensG(cfg.n), GensH(cfg.n), B, cfg.a, cfg.b, cfg.d)
            cs == KReplay(KCreateHeader(vt, cfg.n, cfg.k), proof, cfg.d).cs
        IN  /\ vs.tag = "Ok"
            /\ Len(vs.s_g) = cfg.n
            /\ Len(vs.s_h) = cfg.n
            /\ multiscalar_mul(vs.s_g, GensG(cfg.n)) = multiscalar_mul(proof.a_final, run.g)
            /\ multiscalar_mul(vs.s_h, GensH(cfg.n)) = multiscalar_mul(proof.b_final, run.h)
            /\ vs.s_P = SuffixProd(cs, cfg.k - 1, 0)
            /\ Len(vs.s_U) = cfg.d * (2 * cfg.k - 2)
            /\ \A r \in 1..cfg.d : \A l \in 1..(cfg.k - 1) :
                  /\ vs.s_U[(r - 1) * (2 * cfg.k - 2) + l]
                       = SMul(scalar_pow(cs[r], cfg.k - 1 - l), SuffixProd(cs, cfg.k - 1, r))
                  /\ vs.s_U[(r - 1) * (2 * cfg.k - 2) + cfg.k - 1 + l]
                       = SMul(scalar_pow(cs[r], cfg.k - 1 + l), SuffixProd(cs, cfg.k - 1, r))

\* a proof of two rounds of arity 3 over four entries (padded in both rounds) with
\* non-zero final scalars, so that both folded sums are not the identity
C21_Witness ==
    /\ pc = "created" /\ cfg.kind = "K_BulletProof"
    /\ cfg.k = 3 /\ cfg.d = 2 /\ cfg.n = 4
    /\ proof.a_final[1] # 0 /\ proof.b_final[1] # 0
    /\ multiscalar_mul(K_verification_scalars(proof, 4, vt).s_g, GensG(4)) # Identity

\* all entries of a vector of scalars are zero
AllZero(v) == \A i \in 1..Len(v) : v[i] = 0

\* when prove returns a proof, s_L and s_R have been cleared
C22_BlindingVectorsWiped ==
    (pc = "exited" /\ result.exit = "Ok") =>
        AllZero(result.locals.s_L) /\ AllZero(result.locals.s_R)

\* C22: when prove returns, every ephemeral secret buffer it made holds zeros: the
\* blinding vectors s_L, s_R and s_L_prime, the blinding scalars (i_blinding,
\* o_blinding, s_blinding, the T blindings, t_2_blinding, s_bl_prime, rnd,
\* t1_bl_prime) and the vectors that depend on the witness (l_poly, r_poly, l_vec,
\* r_vec, lc_vec, l_agg, r_agg)
C22_EphemeralsWiped ==
    (pc = "exited" /\ result.exit = "Ok") =>
        LET m == result.locals
        IN  /\ AllZero(m.s_L) /\ AllZero(m.s_R) /\ AllZero(m.s_L_prime)
            /\ AllZero(<<m.i_blinding, m.o_blinding, m.s_blinding, m.t_2_blinding,
                         m.s_bl_prime, m.rnd, m.t1_bl_prime>>)
            /\ AllZero(m.t_blindings)
            /\ \A c \in 1..4 : AllZero(m.l_poly[c]) /\ AllZero(m.r_poly[c])
            /\ AllZero(m.l_vec) /\ AllZero(m.r_vec) /\ AllZero(m.lc_vec)
            /\ AllZero(m.l_agg) /\ AllZero(m.r_agg)

\* with fewer generators than committed values prove returns InvalidGeneratorsLength
\* and leaves the transcript as it was
C23_ProverEager ==
    (pc \in {"exited", "checked"} /\ result.exit # "Dropped" /\ cfg.gens_capacity < prv.m) =>
        /\ result.exit = "InvalidGeneratorsLength"
        /\ pt = prv.cs.transcript

\* the same for verify when the gates are not more than the committed values
C23_VerifierEager ==
    (pc = "checked" /\ cfg.gens_capacity < vrf.cs.num_inputs
                    /\ vrf.cs.num_vars <= vrf.cs.num_inputs) =>
        /\ result.verdict = "InvalidGeneratorsLength"
        /\ vt = vrf.cs.transcript

\* C23: if the generator capacity is smaller than the committed witness length,
\* prove and verify both return InvalidGeneratorsLength, and they do so before
\* anything is appended to the transcript
C23_EagerLengthError ==
    /\ (pc \in {"exited", "checked"} /\ result.exit # "Dropped" /\ cfg.gens_capacity < prv.m) =>
          /\ result.exit = "InvalidGeneratorsLength"
          /\ pt = prv.cs.transcript
    /\ (pc = "checked" /\ cfg.gens_capacity < vrf.cs.num_inputs) =>
          /\ result.verdict = "InvalidGeneratorsLength"
          /\ vt = vrf.cs.transcript

\* C24: for n >= 1, k >= 2, d >= 0 reconstruct_round_lengths(n, k, d) returns the
\* d + 1 lengths L_0 = n, .., L_d with L_(r+1) = ceil(L_r / k), 1 <= L_(r+1) <= L_r
\* and k L_(r+1) >= L_r; so the blown-up vector of verification_scalars, of the
\* length k L_(r+1), is never shorter than the length L_r it is cut to, and the
\* length n_j of a round of create is never 0
C24_RoundLengths ==
    pc = "lengths" =>
        LET L == result.lengths
        IN  /\ Len(L) = cfg.d + 1
            /\ L[1] = cfg.n
            /\ \A r \in 1..cfg.d :
                  /\ L[r + 1] = CeilDiv(L[r], cfg.k)
                  /\ 1 <= L[r + 1] /\ L[r + 1] <= L[r]
                  /\ cfg.k * L[r + 1] >= L[r]
                  /\ Len(BlowUp(Zeros(L[r + 1]), Zeros(cfg.k))) >= L[r]
            /\ result.created = L
            /\ \A r \in 1..(cfg.d + 1) : result.created[r] # 0

\* lengths that shrink to one entry and stay there: 3 -> 1 -> 1, padded in both rounds
C24_Witness ==
    /\ pc = "lengths"
    /\ cfg.n = 3 /\ cfg.k = 4 /\ cfg.d = 2
    /\ result.lengths = <<3, 1, 1>>
    /\ result.created = <<3, 1, 1>>

\* the number of values absorbed by finalize_inputs: the last message "m"
AbsorbedCount == vrf.cs.transcript.log[Len(vrf.cs.transcript.log)][2]

\* with commit_vec calls only, num_inputs is the counter m and bounds every handle
C25_CommitVecOnly ==
    (\A i \in 1..Len(result.calls) : result.calls[i] = "commit_vec") =>
        /\ vrf.cs.num_inputs = vrf.m
        /\ \A h \in 1..Len(result.handles) : result.handles[h][2] < vrf.cs.num_inputs

\* C25: after any sequence of Verifier::commit and Verifier::commit_vec calls
\* num_inputs is m, the count absorbed by finalize_inputs, so every handle
\* Committed(i) the verifier returned has i < num_inputs, the length of the weight
\* vector wV built by flattened_constraints
C25_NumInputs ==
    /\ vrf.cs.num_inputs = vrf.m
    /\ pc = "finalized" => AbsorbedCount = U64Bytes(vrf.cs.num_inputs)
    /\ \A h \in 1..Len(result.handles) :
          /\ result.handles[h][1] = "Committed"
          /\ result.handles[h][2] < vrf.cs.num_inputs
          /\ result.handles[h][2] < Len(VerifierCS_flattened_constraints(vrf.cs, 1).wV)

\* an honest run: both sides made the same calls, every closure returned an
\* assignment, the prover's values satisfy every constraint, its proof is verified
HonestRun ==
    /\ pc = "checked" /\ result.exit = "Ok" /\ result.satisfied /\ ClosuresOk
    /\ vrf.cs.num_vars <= vrf.cs.num_inputs

\* with one commit_vec call on both sides an honest proof is accepted
C26_SingleBatch ==
    (HonestRun /\ NumCalls({"commit_vec"}) = 1) => result.verdict = "Ok"

\* C26: completeness is not limited to one committed vector: when prover and
\* verifier make the same sequence of two or more commit_vec calls, the prover
\* keeps what it needs of every batch and the verifier's check uses the commitments
\* of all batches, so an honest proof is accepted
C26_MultiBatchComplete ==
    (HonestRun /\ NumCalls({"commit_vec"}) >= 2) => result.verdict = "Ok"

\* what a call that returns a Result can return
ResultTags == {"Ok", "VerificationError", "InvalidGeneratorsLength", "FormatError",
               "MissingAssignment", "InputLengthError"}

\* C27: for a constraint system with more multiplication gates than committed
\* entries (num_vars > num_inputs) prove and verify each return a Result, an error
\* or accept / reject: padded_n - n does not underflow and no vector of the length k
\* is indexed out of bounds
C27_ResultReturned ==
    /\ (pc \in {"exited", "checked"} /\ result.exit # "Dropped" /\ Len(prv.cs.a_L) > prv.m) =>
          result.exit \in ResultTags
    /\ (pc = "checked" /\ vrf.cs.num_vars > vrf.cs.num_inputs) =>
          result.verdict \in ResultTags

\* with enough generators and more gates than committed entries prove unwinds
C27_ProverUnwinds ==
    (pc \in {"exited", "checked"} /\ result.exit # "Dropped" /\ Len(prv.cs.a_L) > prv.m
                                  /\ cfg.gens_capacity >= prv.m) =>
        result.exit = "Panic"

\* C28: verification_scalars of both folding arguments never returns Ok, and
\* never panics, for a proof whose arity field k is below 2
C28_SmallArityRejected ==
    (pc = "small_arity") =>
        result.tag \in {"VerificationError", "InvalidGeneratorsLength", "FormatError"}

\* the part that holds: no such proof with k = 0 and at least one round gets an
\* answer at all, and none with k = 0 is accepted by a build with overflow checks
C28_ZeroArityPanics ==
    (pc = "small_arity" /\ decoded.k = 0 /\ (cfg.d > 0 \/ result.checked)) =>
        result.tag = "Panic"

\* k = 1 is accepted by both folding arguments in both builds
C28_UnitArityAccepted ==
    (pc = "small_arity" /\ decoded.k = 1) => result.tag = "Ok"

\* C29: a folding argument's decoder answers every byte string with Ok or
\* FormatError; no header value makes it panic
C29_DecodersTotal ==
    (pc \in {"decoded", "decoded_altered", "decoded_header"}) =>
        decoded.tag \in {"Ok", "FormatError"}

\* the part that holds: with k >= 1 in the header the decoders answer with Ok or
\* FormatError
C29_TotalForPositiveArity ==
    (pc \in {"decoded", "decoded_altered", "decoded_header"} /\ U64At(wire, 0) > 0) =>
        decoded.tag \in {"Ok", "FormatError"}

\* to_bytes of the proof type of the configuration
ToBytesOf(P) == IF cfg.kind = "K_BulletProof" THEN K_to_bytes(P) ELSE E_to_bytes(P)

\* C30: the encoding is canonical: whenever from_bytes(b) returns Ok(P),
\* to_bytes(P) is b
C30_Canonical ==
    (pc \in {"decoded", "decoded_altered", "decoded_header"} /\ decoded.tag = "Ok") =>
        ToBytesOf(decoded.val) = wire

\* what the decoders do guarantee: the re-encoding is a prefix of b up to the
\* padding bytes of the three header cells
C30_PrefixUpToPadding ==
    (pc \in {"decoded", "decoded_altered", "decoded_header"} /\ decoded.tag = "Ok") =>
        LET e == ToBytesOf(decoded.val)
        IN  /\ Len(e) <= Len(wire)
            /\ \A i \in 1..Len(e) :
                  e[i] # wire[i] => /\ i <= 3 * PointLen
                                    /\ ((i - 1) % PointLen) >= 8
                                    /\ e[i] = 0

\* the two ways of leaving the canonical form, as states the decoders reach: bytes
\* after the last scalar are accepted, and so is a padding byte that is not zero
C30_TrailingBytesAccepted ==
    pc = "decoded_altered" /\ decoded.tag = "Ok" /\ Len(ToBytesOf(decoded.val)) < Len(wire)

C30_PaddingByteAccepted ==
    pc = "decoded_header" /\ decoded.tag = "Ok" /\ ToBytesOf(decoded.val) # wire

====
